---- MODULE Spec2Model ----
(***************************************************************************)
(* Model of the MGNREGA cache service (services/mgnrega_service.py) and of *)
(* the data source client it calls (services/data_gov_client.py).          *)
(*                                                                         *)
(* The store is the two tables the service writes: district_data (a set    *)
(* of rows with an autoincrement id) and cache_status (one optional row    *)
(* per data type).  Requests run on one asyncio event loop, so a handler   *)
(* is atomic between two suspension points; the only suspension point of   *)
(* get_district_data and refresh_all_data is the await of the source fetch.*)
(* Time is counted in hours.                                               *)
(***************************************************************************)
EXTENDS Integers, Sequences, FiniteSets, TLC

----------------------------------------------------------------------------
(* Bounds of the model *)

\* hours by which one Tick advances the clock
TickHours == 12
\* last clock value
MaxTime == 36
\* the year datetime.now().year returns during the run
CurrentYear == 2025
\* cap of the consecutive-failure counter
MaxFailedAttempts == 3

\* the concurrent requests
Requests == {1, 2}
Districts == {"AP001", "BR001"}
\* year arguments of a read; 0 stands for an omitted (falsy) year
YearArgs == {0, CurrentYear}
DataTypes == {"district_data"}

----------------------------------------------------------------------------
(* Program constants *)

\* MGNREGAService.cache_duration_hours
CacheDurationHours == 24
\* threshold of _update_cache_status
DownThreshold == 3

\* Python None for an object (row, dict)
None == [none |-> TRUE]
\* Python None / SQL NULL in an integer or timestamp column
Null == -1

----------------------------------------------------------------------------
VARIABLES
    now,            \* datetime.now(), in hours
    districtData,   \* table district_data: set of rows
    cacheStatus,    \* table cache_status: data type -> row or None
    pc,             \* position of each request
    op,             \* operation the request runs
    district_code,  \* get_district_data: argument
    current_year,   \* get_district_data / refresh_all_data: local
    cached_data,    \* get_district_data: row read before the fetch
    result,         \* value returned by the call
    served,         \* which return statement produced the result
    fetches,        \* source calls made by the current call
    district_codes, \* refresh_all_data: codes enumerated at the start
    idx,            \* refresh_all_data: position in district_codes
    success_count,  \* refresh_all_data: tally
    statusCall,     \* last _update_cache_status call: row before, tally, time
    zeroRuns,       \* consecutive _update_cache_status calls with tally 0
    dbFaulty,       \* whether commits of this run may fail
    districtStats,  \* table district_stats: set of rows
    probe,          \* input of a function under test / remembered results
    answer          \* output of a function under test

vars == <<now, districtData, cacheStatus, pc, op, district_code,
          current_year, cached_data, result, served, fetches,
          district_codes, idx, success_count, statusCall, zeroRuns,
          dbFaulty, districtStats, probe, answer>>

reqVars == <<pc, op, district_code, current_year, cached_data, result,
             served, fetches, district_codes, idx, success_count>>

----------------------------------------------------------------------------
(* Data source: DataGovClient *)

DistrictIndex(code) == IF code = "AP001" THEN 1 ELSE 2

DistrictName(code) == IF code = "AP001" THEN "Anantapur" ELSE "Patna"

StateName(code) == IF code = "AP001" THEN "Andhra Pradesh" ELSE "Bihar"

\* _generate_sample_district_data: the generator is seeded with
\* hash(district_code + str(year)), so the record is a function of the key;
\* percentages and days are whole numbers here
GenerateSampleDistrictData(code, year) ==
    [district_code |-> code,
     year |-> year,
     district_name |-> DistrictName(code),
     state_name |-> StateName(code),
     active_workers |-> 100 * DistrictIndex(code),
     total_person_days |-> 800 * DistrictIndex(code) + 200 * (year - CurrentYear + 1),
     average_days_per_household |-> 40 + 10 * DistrictIndex(code),
     employment_provided_percentage |-> 40 + 10 * DistrictIndex(code),
     timely_payment_percentage |-> 75 + 5 * DistrictIndex(code),
     total_expenditure |-> 40 * DistrictIndex(code) + 10 * (year - CurrentYear + 1),
     data_source |-> "data.gov.in",
     is_cached |-> TRUE]

\* get_district_mgnrega_data: the sample record, or None when the call fails
GetDistrictMgnregaData(code, year, ok) ==
    IF ok THEN GenerateSampleDistrictData(code, year) ELSE None

----------------------------------------------------------------------------
(* Staleness policy and store access *)

\* a staleness test that forgets to subtract the cache duration
IsCacheStaleMutNoWindow(last_updated, t) ==
    IF last_updated = Null THEN TRUE ELSE last_updated < t

\* _is_cache_stale
IsCacheStale(last_updated, t) ==
    IF last_updated = Null
    THEN TRUE
    ELSE LET stale_threshold == t - CacheDurationHours
         IN  last_updated < stale_threshold

Matching(rows, code, year) ==
    {row \in rows : row.district_code = code /\ row.year = year}

\* _get_cached_district_data: query(...).filter(...).first()
GetCachedDistrictData(rows, code, year) ==
    LET m == Matching(rows, code, year)
    IN  IF m = {} THEN None
        ELSE CHOOSE row \in m : \A other \in m : row.id <= other.id

\* _format_district_data
FormatDistrictData(row) ==
    [district_code |-> row.district_code,
     year |-> row.year,
     total_person_days |-> row.total_person_days,
     district_name |-> row.district_name,
     state_name |-> row.state_name,
     active_workers |-> row.active_workers,
     average_days_per_household |-> row.average_days_per_household,
     employment_provided_percentage |-> row.employment_provided_percentage,
     timely_payment_percentage |-> row.timely_payment_percentage,
     total_expenditure |-> row.total_expenditure,
     last_updated |-> row.last_updated,
     is_cached |-> row.is_cached,
     data_source |-> row.data_source]

NextId(rows) == Cardinality(rows) + 1

\* an update that leaves total_expenditure as it was
SavedRowMutPartialUpdate(rows, data, code, year, t) ==
    LET existing == GetCachedDistrictData(rows, code, year)
    IN  IF existing # None
        THEN [existing EXCEPT !.district_code = data.district_code,
                              !.year = data.year,
                              !.total_person_days = data.total_person_days,
                              !.district_name = data.district_name,
                              !.state_name = data.state_name,
                              !.active_workers = data.active_workers,
                              !.average_days_per_household = data.average_days_per_household,
                              !.employment_provided_percentage = data.employment_provided_percentage,
                              !.timely_payment_percentage = data.timely_payment_percentage,
                              !.data_source = data.data_source,
                              !.is_cached = data.is_cached,
                              !.last_updated = t]
        ELSE [id |-> NextId(rows),
              district_code |-> code,
              year |-> year,
              total_person_days |-> data.total_person_days,
              district_name |-> data.district_name,
              state_name |-> data.state_name,
              active_workers |-> data.active_workers,
              average_days_per_household |-> data.average_days_per_household,
              employment_provided_percentage |-> data.employment_provided_percentage,
              timely_payment_percentage |-> data.timely_payment_percentage,
              total_expenditure |-> data.total_expenditure,
              data_source |-> data.data_source,
              is_cached |-> data.is_cached,
              last_updated |-> t]

\* an update that leaves last_updated as it was
SavedRowMutKeepStamp(rows, data, code, year, t) ==
    LET existing == GetCachedDistrictData(rows, code, year)
    IN  IF existing # None
        THEN [existing EXCEPT !.district_code = data.district_code,
                              !.year = data.year,
                              !.total_person_days = data.total_person_days,
                              !.district_name = data.district_name,
                              !.state_name = data.state_name,
                              !.active_workers = data.active_workers,
                              !.average_days_per_household = data.average_days_per_household,
                              !.employment_provided_percentage = data.employment_provided_percentage,
                              !.timely_payment_percentage = data.timely_payment_percentage,
                              !.total_expenditure = data.total_expenditure,
                              !.data_source = data.data_source,
                              !.is_cached = data.is_cached]
        ELSE [id |-> NextId(rows),
              district_code |-> code,
              year |-> year,
              total_person_days |-> data.total_person_days,
              district_name |-> data.district_name,
              state_name |-> data.state_name,
              active_workers |-> data.active_workers,
              average_days_per_household |-> data.average_days_per_household,
              employment_provided_percentage |-> data.employment_provided_percentage,
              timely_payment_percentage |-> data.timely_payment_percentage,
              total_expenditure |-> data.total_expenditure,
              data_source |-> data.data_source,
              is_cached |-> data.is_cached,
              last_updated |-> t]

\* an update that writes the payload's money and percentages but leaves
\* the counts of the row it found
SavedRowMutMixed(rows, data, code, year, t) ==
    LET existing == GetCachedDistrictData(rows, code, year)
    IN  IF existing # None
        THEN [existing EXCEPT !.average_days_per_household = data.average_days_per_household,
                              !.employment_provided_percentage = data.employment_provided_percentage,
                              !.timely_payment_percentage = data.timely_payment_percentage,
                              !.total_expenditure = data.total_expenditure,
                              !.last_updated = t]
        ELSE [id |-> NextId(rows),
              district_code |-> code,
              year |-> year,
              total_person_days |-> data.total_person_days,
              district_name |-> data.district_name,
              state_name |-> data.state_name,
              active_workers |-> data.active_workers,
              average_days_per_household |-> data.average_days_per_household,
              employment_provided_percentage |-> data.employment_provided_percentage,
              timely_payment_percentage |-> data.timely_payment_percentage,
              total_expenditure |-> data.total_expenditure,
              data_source |-> data.data_source,
              is_cached |-> data.is_cached,
              last_updated |-> t]

\* a save that lets the cached row win over the fetched record
SavedRowMutKeepCached(rows, data, code, year, t) ==
    LET existing == GetCachedDistrictData(rows, code, year)
    IN  IF existing # None
        THEN existing
        ELSE [id |-> NextId(rows),
              district_code |-> code,
              year |-> year,
              total_person_days |-> data.total_person_days,
              district_name |-> data.district_name,
              state_name |-> data.state_name,
              active_workers |-> data.active_workers,
              average_days_per_household |-> data.average_days_per_household,
              employment_provided_percentage |-> data.employment_provided_percentage,
              timely_payment_percentage |-> data.timely_payment_percentage,
              total_expenditure |-> data.total_expenditure,
              data_source |-> data.data_source,
              is_cached |-> data.is_cached,
              last_updated |-> t]

\* the row _save_district_data_to_cache commits
SavedRow(rows, data, code, year, t) ==
    LET existing == GetCachedDistrictData(rows, code, year)
    IN  IF existing # None
        THEN [existing EXCEPT !.district_code = data.district_code,
                              !.year = data.year,
                              !.total_person_days = data.total_person_days,
                              !.district_name = data.district_name,
                              !.state_name = data.state_name,
                              !.active_workers = data.active_workers,
                              !.average_days_per_household = data.average_days_per_household,
                              !.employment_provided_percentage = data.employment_provided_percentage,
                              !.timely_payment_percentage = data.timely_payment_percentage,
                              !.total_expenditure = data.total_expenditure,
                              !.data_source = data.data_source,
                              !.is_cached = data.is_cached,
                              !.last_updated = t]
        ELSE [id |-> NextId(rows),
              district_code |-> code,
              year |-> year,
              total_person_days |-> data.total_person_days,
              district_name |-> data.district_name,
              state_name |-> data.state_name,
              active_workers |-> data.active_workers,
              average_days_per_household |-> data.average_days_per_household,
              employment_provided_percentage |-> data.employment_provided_percentage,
              timely_payment_percentage |-> data.timely_payment_percentage,
              total_expenditure |-> data.total_expenditure,
              data_source |-> data.data_source,
              is_cached |-> data.is_cached,
              last_updated |-> t]

\* a save that never looks for the existing row and always adds one
SaveDistrictDataToCacheMutAlwaysAdd(rows, data, code, year, t) ==
    rows \cup {[id |-> NextId(rows),
                district_code |-> code,
                year |-> year,
                total_person_days |-> data.total_person_days,
                district_name |-> data.district_name,
                state_name |-> data.state_name,
                active_workers |-> data.active_workers,
                average_days_per_household |-> data.average_days_per_household,
                employment_provided_percentage |-> data.employment_provided_percentage,
                timely_payment_percentage |-> data.timely_payment_percentage,
                total_expenditure |-> data.total_expenditure,
                data_source |-> data.data_source,
                is_cached |-> data.is_cached,
                last_updated |-> t]}

\* a save whose write never reaches the table
SaveDistrictDataToCacheMutNoCommit(rows, data, code, year, t) == rows

\* a save that also stamps the district's rows of other years
SaveDistrictDataToCacheMutAllYears(rows, data, code, year, t) ==
    LET existing == GetCachedDistrictData(rows, code, year)
        record == SavedRow(rows, data, code, year, t)
        others == {row \in rows : row.district_code = code /\ row.year # year}
    IN  ((rows \ (IF existing = None THEN {} ELSE {existing})) \ others)
            \cup {record}
            \cup {[row EXCEPT !.last_updated = t] : row \in others}

\* _save_district_data_to_cache: the table after the commit
SaveDistrictDataToCache(rows, data, code, year, t) ==
    LET existing == GetCachedDistrictData(rows, code, year)
        record == SavedRow(rows, data, code, year, t)
    IN  (rows \ (IF existing = None THEN {} ELSE {existing})) \cup {record}

\* a fallback that gives up although a cached row was read
FallbackResultMutNotFound(cached) == None

\* a fallback that invents a zero-valued record when nothing is cached
FallbackResultMutDefault(cached) ==
    IF cached # None THEN FormatDistrictData(cached)
    ELSE [district_code |-> "", district_name |-> "", state_name |-> "",
          year |-> 0, active_workers |-> 0, total_person_days |-> 0,
          average_days_per_household |-> 0,
          employment_provided_percentage |-> 0,
          timely_payment_percentage |-> 0,
          total_expenditure |-> 0, last_updated |-> Null,
          is_cached |-> TRUE, data_source |-> "data.gov.in"]

\* get_district_data, lines 77-82: the source returned nothing
FallbackResult(cached) ==
    IF cached # None THEN FormatDistrictData(cached) ELSE None

\* which return statement of get_district_data answers a failed fetch
FallbackServed(cached) ==
    IF cached # None THEN "stale" ELSE "absent"

\* which branch of _save_district_data_to_cache runs (line 351)
SaveBranch(rows, code, year) ==
    IF GetCachedDistrictData(rows, code, year) # None
    THEN "updated" ELSE "created"

\* the results of a call answered by a live fetch
Live == {"created", "updated"}

----------------------------------------------------------------------------
(* Health tracker *)

\* a new row whose unset attributes already read the column defaults
NewCacheStatusMutDefaults(data_type) ==
    [data_type |-> data_type,
     last_api_fetch |-> Null,
     last_successful_fetch |-> Null,
     total_records |-> 0,
     failed_attempts |-> 0,
     is_stale |-> "False",
     api_status |-> "active"]

\* CacheStatus(data_type=...) before any flush: column defaults are applied
\* at INSERT, so the unset attributes of the new object read None
NewCacheStatus(data_type) ==
    [data_type |-> data_type,
     last_api_fetch |-> Null,
     last_successful_fetch |-> Null,
     total_records |-> Null,
     failed_attempts |-> Null,
     is_stale |-> "None",
     api_status |-> "None"]

\* whether the body of _update_cache_status raises: None += 1
UpdateRaises(row, success_count_) ==
    success_count_ = 0 /\ row.failed_attempts = Null

\* a tracker whose success branch forgets to reset the failure counter
UpdatedCacheStatusMutNoReset(row, success_count_, t) ==
    LET r1 == [row EXCEPT !.last_api_fetch = t,
                          !.total_records = success_count_]
    IN  IF success_count_ > 0
        THEN [r1 EXCEPT !.last_successful_fetch = t,
                        !.api_status = "active",
                        !.is_stale = "False",
                        !.failed_attempts =
                            IF @ = Null THEN 0 ELSE @]
        ELSE LET r2 == [r1 EXCEPT !.failed_attempts = @ + 1]
             IN  IF r2.failed_attempts >= DownThreshold
                 THEN [r2 EXCEPT !.api_status = "down", !.is_stale = "True"]
                 ELSE r2

\* a tracker that escalates on the first failure
UpdatedCacheStatusMutEarlyDown(row, success_count_, t) ==
    LET r1 == [row EXCEPT !.last_api_fetch = t,
                          !.total_records = success_count_]
    IN  IF success_count_ > 0
        THEN [r1 EXCEPT !.last_successful_fetch = t,
                        !.api_status = "active",
                        !.is_stale = "False",
                        !.failed_attempts = 0]
        ELSE LET r2 == [r1 EXCEPT !.failed_attempts = @ + 1]
             IN  IF r2.failed_attempts >= 1
                 THEN [r2 EXCEPT !.api_status = "down", !.is_stale = "True"]
                 ELSE r2

\* a tracker that flags the row stale on every failure
UpdatedCacheStatusMutStaleEarly(row, success_count_, t) ==
    LET r1 == [row EXCEPT !.last_api_fetch = t,
                          !.total_records = success_count_]
    IN  IF success_count_ > 0
        THEN [r1 EXCEPT !.last_successful_fetch = t,
                        !.api_status = "active",
                        !.is_stale = "False",
                        !.failed_attempts = 0]
        ELSE LET r2 == [r1 EXCEPT !.failed_attempts = @ + 1,
                                  !.is_stale = "True"]
             IN  IF r2.failed_attempts >= DownThreshold
                 THEN [r2 EXCEPT !.api_status = "down", !.is_stale = "True"]
                 ELSE r2

\* the row _update_cache_status commits
UpdatedCacheStatus(row, success_count_, t) ==
    LET r1 == [row EXCEPT !.last_api_fetch = t,
                          !.total_records = success_count_]
    IN  IF success_count_ > 0
        THEN [r1 EXCEPT !.last_successful_fetch = t,
                        !.api_status = "active",
                        !.is_stale = "False",
                        !.failed_attempts = 0]
        ELSE LET r2 == [r1 EXCEPT !.failed_attempts = @ + 1]
             IN  IF r2.failed_attempts >= DownThreshold
                 THEN [r2 EXCEPT !.api_status = "down", !.is_stale = "True"]
                 ELSE r2

\* _update_cache_status: the table after the call
UpdateCacheStatus(table, data_type, success_count_, t, commitOk) ==
    LET found == table[data_type]
        cache_status == IF found = None THEN NewCacheStatus(data_type)
                        ELSE found
    IN  IF UpdateRaises(cache_status, success_count_) \/ ~commitOk
        THEN table
        ELSE [table EXCEPT
                 ![data_type] = UpdatedCacheStatus(cache_status, success_count_, t)]

----------------------------------------------------------------------------
(* Initial state: empty tables, every request idle *)

NoCall == [before |-> None, success_count |-> 0, at |-> 0, made |-> FALSE]

InitCommon ==
    /\ now = 0
    /\ districtData = {}
    /\ cacheStatus = [t \in DataTypes |-> None]
    /\ pc = [r \in Requests |-> "idle"]
    /\ op = [r \in Requests |-> "none"]
    /\ district_code = [r \in Requests |-> ""]
    /\ current_year = [r \in Requests |-> 0]
    /\ cached_data = [r \in Requests |-> None]
    /\ result = [r \in Requests |-> None]
    /\ served = [r \in Requests |-> "none"]
    /\ fetches = [r \in Requests |-> 0]
    /\ district_codes = [r \in Requests |-> <<>>]
    /\ idx = [r \in Requests |-> 0]
    /\ success_count = [r \in Requests |-> 0]
    /\ statusCall = NoCall
    /\ zeroRuns = 0

\* the request state and the tables the record service does not touch
InitRest ==
    /\ districtStats = {}
    /\ probe = None
    /\ answer = None

Init == InitCommon /\ InitRest /\ dbFaulty = FALSE

InitFault == InitCommon /\ InitRest /\ dbFaulty = TRUE

\* outcomes of db.commit() in the upserts of the record tables
CommitOutcomes == IF dbFaulty THEN {TRUE, FALSE} ELSE {TRUE}

\* outcomes of db.commit() in _update_cache_status; write failures are
\* modelled for the two record tables only
StatusCommitOutcomes == {TRUE}

\* a finished call is handed to its caller before anything else runs
NoPendingReturn == \A r \in Requests : pc[r] # "done"

----------------------------------------------------------------------------
(* The clock *)

Tick ==
    /\ NoPendingReturn
    /\ now + TickHours <= MaxTime
    /\ now' = now + TickHours
    /\ UNCHANGED <<districtData, cacheStatus, reqVars, statusCall, zeroRuns,
                   dbFaulty>>

----------------------------------------------------------------------------
(* get_district_data *)

\* lines 59-71: read the cache; return a fresh row, else call the source
\* and suspend
GetDistrictDataStart(r, code, year) ==
    /\ NoPendingReturn
    /\ pc[r] = "idle"
    /\ LET cy == IF year = 0 THEN CurrentYear ELSE year
           cd == GetCachedDistrictData(districtData, code, cy)
       IN  /\ op' = [op EXCEPT ![r] = "get_district_data"]
           /\ district_code' = [district_code EXCEPT ![r] = code]
           /\ current_year' = [current_year EXCEPT ![r] = cy]
           /\ IF cd # None /\ ~IsCacheStale(cd.last_updated, now)
              THEN /\ pc' = [pc EXCEPT ![r] = "done"]
                   /\ result' = [result EXCEPT ![r] = FormatDistrictData(cd)]
                   /\ served' = [served EXCEPT ![r] = "cache"]
                   /\ UNCHANGED <<cached_data, fetches>>
              ELSE /\ pc' = [pc EXCEPT ![r] = "await_fetch"]
                   /\ cached_data' = [cached_data EXCEPT ![r] = cd]
                   /\ fetches' = [fetches EXCEPT ![r] = 1]
                   /\ UNCHANGED <<result, served>>
    /\ UNCHANGED <<now, districtData, cacheStatus, district_codes, idx,
                   success_count, statusCall, zeroRuns, dbFaulty>>

\* lines 71-86: the fetch has returned
GetDistrictDataResume(r, fetchOk, commitOk) ==
    /\ NoPendingReturn
    /\ pc[r] = "await_fetch"
    /\ LET code == district_code[r]
           cy == current_year[r]
           fresh_data == GetDistrictMgnregaData(code, cy, fetchOk)
       IN  IF fresh_data # None
           THEN IF commitOk
                THEN /\ districtData' = SaveDistrictDataToCache(
                                            districtData, fresh_data, code, cy, now)
                     /\ result' = [result EXCEPT ![r] = FormatDistrictData(
                                       SavedRow(districtData, fresh_data, code, cy, now))]
                     /\ served' = [served EXCEPT ![r] =
                                       SaveBranch(districtData, code, cy)]
                ELSE \* commit raises, rollback, re-raise, caught at line 84
                     /\ districtData' = districtData
                     /\ result' = [result EXCEPT ![r] = None]
                     /\ served' = [served EXCEPT ![r] = "error"]
           ELSE /\ districtData' = districtData
                /\ result' = [result EXCEPT ![r] = FallbackResult(cached_data[r])]
                /\ served' = [served EXCEPT ![r] = FallbackServed(cached_data[r])]
    /\ pc' = [pc EXCEPT ![r] = "done"]
    /\ UNCHANGED <<now, cacheStatus, op, district_code, current_year,
                   cached_data, fetches, district_codes, idx, success_count,
                   statusCall, zeroRuns, dbFaulty>>

----------------------------------------------------------------------------
(* refresh_all_data *)

\* the orders in which the DISTINCT query can return a set of codes
RECURSIVE Orders(_)
Orders(S) ==
    IF S = {} THEN {<<>>}
    ELSE UNION {{<<c>> \o rest : rest \in Orders(S \ {c})} : c \in S}

DistinctCodes(rows) == {row.district_code : row \in rows}

\* the ghost record of an _update_cache_status call
StatusCallRecord(table, tally, t) ==
    [before |-> table["district_data"], success_count |-> tally, at |-> t,
     made |-> TRUE]

ZeroRunsAfter(tally) ==
    IF tally > 0 THEN 0
    ELSE IF zeroRuns < DownThreshold THEN zeroRuns + 1 ELSE zeroRuns

\* the counter of the row the next zero-success call would increment
FailedAttemptsOf(table) ==
    IF table["district_data"] = None THEN 0
    ELSE table["district_data"].failed_attempts

\* line 234 and the return
FinishRefresh(r, tally, commitOk) ==
    /\ tally = 0 => FailedAttemptsOf(cacheStatus) < MaxFailedAttempts
    /\ cacheStatus' = UpdateCacheStatus(cacheStatus, "district_data", tally,
                                        now, commitOk)
    /\ statusCall' = StatusCallRecord(cacheStatus, tally, now)
    /\ zeroRuns' = ZeroRunsAfter(tally)
    /\ pc' = [pc EXCEPT ![r] = "done"]
    /\ served' = [served EXCEPT ![r] = "refreshed"]

\* lines 214-226: enumerate the codes, start the first fetch and suspend;
\* with no code the loop is skipped
RefreshAllDataStart(r, codes, commitOk) ==
    /\ NoPendingReturn
    /\ pc[r] = "idle"
    /\ codes \in Orders(DistinctCodes(districtData))
    /\ op' = [op EXCEPT ![r] = "refresh_all_data"]
    /\ district_codes' = [district_codes EXCEPT ![r] = codes]
    /\ current_year' = [current_year EXCEPT ![r] = CurrentYear]
    /\ success_count' = [success_count EXCEPT ![r] = 0]
    /\ IF codes = <<>>
       THEN /\ FinishRefresh(r, 0, commitOk)
            /\ UNCHANGED <<idx, fetches>>
       ELSE /\ pc' = [pc EXCEPT ![r] = "refresh_fetch"]
            /\ idx' = [idx EXCEPT ![r] = 1]
            /\ fetches' = [fetches EXCEPT ![r] = 1]
            /\ UNCHANGED <<cacheStatus, statusCall, zeroRuns, served>>
    /\ UNCHANGED <<now, districtData, district_code, cached_data, result,
                   dbFaulty>>

\* a refresh that counts every fetched district, stored or not
RefreshAllDataResumeMutCountsFetches(r, fetchOk, saveOk, commitOk) ==
    /\ NoPendingReturn
    /\ pc[r] = "refresh_fetch"
    /\ LET code == district_codes[r][idx[r]]
           cy == current_year[r]
           fresh_data == GetDistrictMgnregaData(code, cy, fetchOk)
           saved == fresh_data # None /\ saveOk
           tally == IF fresh_data # None THEN success_count[r] + 1
                    ELSE success_count[r]
       IN  /\ districtData' = IF saved
                              THEN SaveDistrictDataToCache(
                                       districtData, fresh_data, code, cy, now)
                              ELSE districtData
           /\ success_count' = [success_count EXCEPT ![r] = tally]
           /\ IF idx[r] < Len(district_codes[r])
              THEN /\ idx' = [idx EXCEPT ![r] = @ + 1]
                   /\ fetches' = [fetches EXCEPT ![r] = @ + 1]
                   /\ UNCHANGED <<pc, cacheStatus, statusCall, zeroRuns, served>>
              ELSE /\ FinishRefresh(r, tally, commitOk)
                   /\ UNCHANGED <<idx, fetches>>
    /\ UNCHANGED <<now, op, district_code, current_year, cached_data, result,
                   district_codes, dbFaulty>>

\* lines 226-234: the fetch of district_codes[idx] has returned
RefreshAllDataResume(r, fetchOk, saveOk, commitOk) ==
    /\ NoPendingReturn
    /\ pc[r] = "refresh_fetch"
    /\ LET code == district_codes[r][idx[r]]
           cy == current_year[r]
           fresh_data == GetDistrictMgnregaData(code, cy, fetchOk)
           saved == fresh_data # None /\ saveOk
           tally == IF saved THEN success_count[r] + 1 ELSE success_count[r]
       IN  /\ districtData' = IF saved
                              THEN SaveDistrictDataToCache(
                                       districtData, fresh_data, code, cy, now)
                              ELSE districtData
           /\ success_count' = [success_count EXCEPT ![r] = tally]
           /\ IF idx[r] < Len(district_codes[r])
              THEN /\ idx' = [idx EXCEPT ![r] = @ + 1]
                   /\ fetches' = [fetches EXCEPT ![r] = @ + 1]
                   /\ UNCHANGED <<pc, cacheStatus, statusCall, zeroRuns, served>>
              ELSE /\ FinishRefresh(r, tally, commitOk)
                   /\ UNCHANGED <<idx, fetches>>
    /\ UNCHANGED <<now, op, district_code, current_year, cached_data, result,
                   district_codes, dbFaulty>>

----------------------------------------------------------------------------
(* The caller takes the result; the request is free for the next call *)

Return(r) ==
    /\ pc[r] = "done"
    /\ pc' = [pc EXCEPT ![r] = "idle"]
    /\ op' = [op EXCEPT ![r] = "none"]
    /\ district_code' = [district_code EXCEPT ![r] = ""]
    /\ current_year' = [current_year EXCEPT ![r] = 0]
    /\ cached_data' = [cached_data EXCEPT ![r] = None]
    /\ result' = [result EXCEPT ![r] = None]
    /\ served' = [served EXCEPT ![r] = "none"]
    /\ fetches' = [fetches EXCEPT ![r] = 0]
    /\ district_codes' = [district_codes EXCEPT ![r] = <<>>]
    /\ idx' = [idx EXCEPT ![r] = 0]
    /\ success_count' = [success_count EXCEPT ![r] = 0]
    /\ statusCall' = NoCall
    /\ UNCHANGED <<now, districtData, cacheStatus, zeroRuns, dbFaulty>>

----------------------------------------------------------------------------
\* the state the record service does not touch
restVars == <<districtStats, probe, answer>>

Next ==
    \/ Tick /\ UNCHANGED restVars
    \/ \E r \in Requests, code \in Districts, year \in YearArgs :
           GetDistrictDataStart(r, code, year) /\ UNCHANGED restVars
    \/ \E r \in Requests, fetchOk \in BOOLEAN, commitOk \in CommitOutcomes :
           GetDistrictDataResume(r, fetchOk, commitOk) /\ UNCHANGED restVars
    \/ \E r \in Requests, commitOk \in StatusCommitOutcomes :
           \E codes \in Orders(DistinctCodes(districtData)) :
               RefreshAllDataStart(r, codes, commitOk) /\ UNCHANGED restVars
    \/ \E r \in Requests, fetchOk \in BOOLEAN :
           \E saveOk \in CommitOutcomes, commitOk \in StatusCommitOutcomes :
               RefreshAllDataResume(r, fetchOk, saveOk, commitOk)
               /\ UNCHANGED restVars
    \/ \E r \in Requests : Return(r) /\ UNCHANGED restVars

Spec == Init /\ [][Next]_vars

FaultSpec == InitFault /\ [][Next]_vars

----------------------------------------------------------------------------
(* Properties of the read path *)

ReadDone(r) == pc[r] = "done" /\ op[r] = "get_district_data"

YearOf(year) == IF year = 0 THEN CurrentYear ELSE year

\* C1 (Freshness): a get_district_data call that finds a cached row for its
\* key with now - last_updated < 24h returns that row's values at once,
\* makes no source call and leaves the district_data table as it was.
C1_Freshness ==
    [][\A r \in Requests, code \in Districts, year \in YearArgs :
         LET row == GetCachedDistrictData(districtData, code, YearOf(year))
         IN  (/\ GetDistrictDataStart(r, code, year)
              /\ row # None
              /\ row.last_updated # Null
              /\ now - row.last_updated < CacheDurationHours)
             => /\ pc'[r] = "done"
                /\ result'[r] = FormatDistrictData(row)
                /\ fetches'[r] = 0
                /\ districtData' = districtData]_vars

\* a read answered from a cached row that is some hours old, but fresh
C1_Witness ==
    \E r \in Requests :
        /\ ReadDone(r)
        /\ served[r] = "cache"
        /\ fetches[r] = 0
        /\ result[r].last_updated < now
        /\ now - result[r].last_updated < CacheDurationHours

\* the source fetch of the finished read returned nothing
FetchFailed(r) == ReadDone(r) /\ served[r] \in {"stale", "absent"}

\* C2 (Fallback): when the source fetch of a get_district_data call fails
\* and the call had read a cached row for its key, however old, the call
\* returns that row, never None.
C2_Fallback ==
    \A r \in Requests :
        (FetchFailed(r) /\ cached_data[r] # None)
            => /\ result[r] # None
               /\ result[r] = FormatDistrictData(cached_data[r])
               /\ result[r].district_code = district_code[r]
               /\ result[r].year = current_year[r]

\* a read that fell back to a row older than the cache duration
C2_Witness ==
    \E r \in Requests :
        /\ FetchFailed(r)
        /\ cached_data[r] # None
        /\ now - cached_data[r].last_updated > CacheDurationHours
        /\ result[r] # None

\* C3 (Absence): a get_district_data call that read no cached row for its
\* key and whose source fetch fails returns None, not a default record,
\* and adds no row to the district_data table.
C3_Absence ==
    [][\A r \in Requests :
         (/\ \E c \in BOOLEAN : GetDistrictDataResume(r, FALSE, c)
          /\ cached_data[r] = None)
            => /\ pc'[r] = "done"
               /\ result'[r] = None
               /\ districtData' = districtData]_vars

\* a read that found nothing in the cache and nothing at the source
C3_Witness ==
    \E r \in Requests :
        /\ FetchFailed(r)
        /\ cached_data[r] = None
        /\ result[r] = None
        /\ Matching(districtData, district_code[r], current_year[r]) = {}

\* C4: in every reachable state the district_data table holds at most one
\* row per (district_code, year), also when reads and refreshes interleave
\* at the source fetch.
C4_OneRowPerKey ==
    \A a \in districtData, b \in districtData :
        (a.district_code = b.district_code /\ a.year = b.year) => a = b

\* a read that saw no row before its fetch and found one, written by a
\* concurrent call, when it saved
C4_Witness ==
    \E r \in Requests :
        /\ ReadDone(r)
        /\ cached_data[r] = None
        /\ served[r] = "updated"
        /\ Cardinality(Matching(districtData, district_code[r],
                                current_year[r])) = 1

\* C5: a read answered by a successful live fetch returns is_cached = FALSE,
\* a read answered from the cache returns is_cached = TRUE.
C5_LiveNotCached ==
    \A r \in Requests :
        /\ (ReadDone(r) /\ served[r] \in Live) => result[r].is_cached = FALSE
        /\ (ReadDone(r) /\ served[r] \in {"cache", "stale"})
               => result[r].is_cached = TRUE

\* the flags a caller can inspect on a returned record
Flags(res) == <<res.is_cached, res.data_source>>

\* what the same call would have returned had its fetch succeeded
FreshAlternative(r) ==
    FormatDistrictData(
        SavedRow(districtData,
                 GenerateSampleDistrictData(district_code[r], current_year[r]),
                 district_code[r], current_year[r], now))

\* C6: a result returned as a stale fallback carries flag values that differ
\* from those of the fresh result the same read would have returned had the
\* source answered.
C6_StaleFlagged ==
    \A r \in Requests :
        (ReadDone(r) /\ served[r] = "stale")
            => Flags(result[r]) # Flags(FreshAlternative(r))

----------------------------------------------------------------------------
(* Properties of the health tracker *)

StatusRow == cacheStatus["district_data"]

\* C7 (Health escalation): after three consecutive refresh_all_data runs
\* with success_count = 0, from any state of the cache_status table (also
\* the one without a row), the row has api_status 'down' and is_stale true.
C7_Escalation ==
    zeroRuns >= DownThreshold
        => /\ StatusRow # None
           /\ StatusRow.api_status = "down"
           /\ StatusRow.is_stale = "True"

\* C8 (Health reset): an _update_cache_status call with success_count > 0
\* leaves failed_attempts = 0, api_status 'active', is_stale false and
\* last_successful_fetch = the time of the call, whatever the row was.
C8_Reset ==
    (statusCall.made /\ statusCall.success_count > 0)
        => /\ StatusRow # None
           /\ StatusRow.failed_attempts = 0
           /\ StatusRow.api_status = "active"
           /\ StatusRow.is_stale = "False"
           /\ StatusRow.last_successful_fetch = statusCall.at

\* a successful refresh that found the row 'down' after three failures
C8_Witness ==
    /\ statusCall.made
    /\ statusCall.success_count > 0
    /\ statusCall.before # None
    /\ statusCall.before.api_status = "down"
    /\ statusCall.before.failed_attempts >= DownThreshold
    /\ StatusRow.api_status = "active"

\* C9: after every _update_cache_status call, with a zero or a positive
\* tally, with or without a row before it, a cache_status row exists with
\* last_api_fetch = the time of the call and total_records = the tally.
C9_AlwaysRecorded ==
    statusCall.made
        => /\ StatusRow # None
           /\ StatusRow.last_api_fetch = statusCall.at
           /\ StatusRow.total_records = statusCall.success_count

\* C10: a zero-success _update_cache_status call that brings failed_attempts
\* to a value below 3 adds exactly 1 to it and leaves api_status, is_stale
\* and last_successful_fetch as they were.
C10_BelowThreshold ==
    (/\ statusCall.made
     /\ statusCall.success_count = 0
     /\ StatusRow # None
     /\ StatusRow.failed_attempts < DownThreshold)
        => /\ statusCall.before # None
           /\ StatusRow.failed_attempts = statusCall.before.failed_attempts + 1
           /\ StatusRow.api_status = statusCall.before.api_status
           /\ StatusRow.is_stale = statusCall.before.is_stale
           /\ StatusRow.last_successful_fetch =
                  statusCall.before.last_successful_fetch

\* a second failed refresh in a row: the row stays 'active'
C10_Witness ==
    /\ statusCall.made
    /\ statusCall.success_count = 0
    /\ statusCall.before # None
    /\ statusCall.before.failed_attempts = 1
    /\ StatusRow.failed_attempts = 2
    /\ StatusRow.api_status = "active"

----------------------------------------------------------------------------
(* get_cache_status: the health report over the cache_status table *)

\* the variables of the record service
serviceVars == <<now, districtData, cacheStatus, pc, op, district_code,
                 current_year, cached_data, result, served, fetches,
                 district_codes, idx, success_count, statusCall, zeroRuns,
                 dbFaulty>>

MaxStatusRows == 2

StatusDataTypes == {"district_data", "location_data"}

ApiStatuses == {"unknown", "active", "limited", "down"}

\* a row of cache_status, as far as the report reads it
CacheStatusRows ==
    [data_type : StatusDataTypes,
     api_status : ApiStatuses,
     is_stale : {"True", "False", "None"}]

\* the tables db.query(CacheStatus).all() can return
CacheStatusTables ==
    UNION {[1..n -> CacheStatusRows] : n \in 0..MaxStatusRows}

\* truth value of a nullable Boolean column
Truthy(b) == b = "True"

\* api_health: one entry per data type, a later row overwriting an earlier
ApiHealth(cache_statuses) ==
    LET present == {cache_statuses[i].data_type : i \in DOMAIN cache_statuses}
        Last(t) == CHOOSE i \in DOMAIN cache_statuses :
                      /\ cache_statuses[i].data_type = t
                      /\ \A j \in DOMAIN cache_statuses :
                            cache_statuses[j].data_type = t => j <= i
    IN  [t \in present |-> cache_statuses[Last(t)].api_status]

\* the stale test is applied last, so that it wins over the down test
OverallStatusMutStaleWins(cache_statuses) ==
    LET s0 == "healthy"
        s1 == IF \E i \in DOMAIN cache_statuses :
                     cache_statuses[i].api_status = "down"
              THEN "critical" ELSE s0
    IN  IF \E i \in DOMAIN cache_statuses : Truthy(cache_statuses[i].is_stale)
        THEN "degraded" ELSE s1

\* overall_status: "healthy", overwritten by "degraded", overwritten by
\* "critical"
OverallStatus(cache_statuses) ==
    LET s0 == "healthy"
        s1 == IF \E i \in DOMAIN cache_statuses :
                     Truthy(cache_statuses[i].is_stale)
              THEN "degraded" ELSE s0
    IN  IF \E i \in DOMAIN cache_statuses :
               cache_statuses[i].api_status = "down"
        THEN "critical" ELSE s1

StatusData(cache_statuses, t) ==
    [overall_status |-> OverallStatus(cache_statuses),
     last_refresh |-> t,
     api_health |-> ApiHealth(cache_statuses)]

InitStatus ==
    /\ InitCommon
    /\ dbFaulty = FALSE
    /\ districtStats = {}
    /\ probe \in CacheStatusTables
    /\ answer = None

GetCacheStatus ==
    /\ answer = None
    /\ answer' = StatusData(probe, now)
    /\ UNCHANGED <<serviceVars, districtStats, probe>>

NextStatus == GetCacheStatus

StatusSpec == InitStatus /\ [][NextStatus]_vars

\* C11: get_cache_status reports 'critical' when some row of the table has
\* api_status 'down', otherwise 'degraded' when some row has is_stale true,
\* otherwise 'healthy', whatever rows the table holds.
C11_Overall ==
    answer # None
        => answer.overall_status =
              IF \E i \in DOMAIN probe : probe[i].api_status = "down"
              THEN "critical"
              ELSE IF \E i \in DOMAIN probe : probe[i].is_stale = "True"
                   THEN "degraded"
                   ELSE "healthy"

\* a report over a table with a stale row that is not down and a down row
C11_Witness ==
    /\ answer # None
    /\ Len(probe) = 2
    /\ probe[1].is_stale = "True"
    /\ probe[1].api_status = "active"
    /\ probe[2].api_status = "down"
    /\ answer.overall_status = "critical"

----------------------------------------------------------------------------
(* Properties of the bulk refresh *)

RefreshDone(r) == pc[r] = "done" /\ op[r] = "refresh_all_data"

\* C12 (bulk refresh isolation): when refresh_all_data returns from a run
\* in which the fetch or the upsert of some district failed, every district
\* code it enumerated has been attempted exactly once and the tally of the
\* run is recorded in the cache_status row of "district_data".
C12_Isolation ==
    \A r \in Requests :
        (RefreshDone(r) /\ success_count[r] < Len(district_codes[r]))
            => /\ fetches[r] = Len(district_codes[r])
               /\ \A i, j \in DOMAIN district_codes[r] :
                      district_codes[r][i] = district_codes[r][j] => i = j
               /\ success_count[r] <= Len(district_codes[r])
               /\ cacheStatus["district_data"] # None
               /\ cacheStatus["district_data"].total_records = success_count[r]
               /\ cacheStatus["district_data"].last_api_fetch = now

----------------------------------------------------------------------------
(* _save_district_data_to_cache applied repeatedly to one fetched record *)

MaxApplies == 2

SaveYears == {CurrentYear - 1, CurrentYear}

\* the records the source hands to the upsert
SavePayloads ==
    {GenerateSampleDistrictData(code, year) :
         code \in Districts, year \in SaveYears}

\* a row written by an earlier process: the generator's seed, hash(...),
\* changes from process to process, and so do the values it produced
LegacyRow(id, code, year) ==
    [id |-> id,
     district_code |-> code,
     district_name |-> DistrictName(code),
     state_name |-> StateName(code),
     year |-> year,
     active_workers |-> 80,
     total_person_days |-> 600,
     average_days_per_household |-> 30,
     employment_provided_percentage |-> 30,
     timely_payment_percentage |-> 70,
     total_expenditure |-> 30,
     data_source |-> "data.gov.in",
     is_cached |-> TRUE,
     last_updated |-> 0]

LegacyStores ==
    {{},
     {LegacyRow(1, "AP001", CurrentYear)},
     {LegacyRow(1, "BR001", CurrentYear)},
     {LegacyRow(1, "AP001", CurrentYear - 1)},
     {LegacyRow(1, "AP001", CurrentYear), LegacyRow(2, "BR001", CurrentYear)},
     {LegacyRow(1, "AP001", CurrentYear),
      LegacyRow(2, "AP001", CurrentYear - 1)}}

NoSave == [applied |-> 0, at |-> 0, prev |-> None, last |-> None]

\* the process starts after the one that wrote the legacy rows
InitSave ==
    /\ now = TickHours
    /\ districtData \in LegacyStores
    /\ cacheStatus = [t \in DataTypes |-> None]
    /\ pc = [r \in Requests |-> "idle"]
    /\ op = [r \in Requests |-> "none"]
    /\ district_code = [r \in Requests |-> ""]
    /\ current_year = [r \in Requests |-> 0]
    /\ cached_data = [r \in Requests |-> None]
    /\ result = [r \in Requests |-> None]
    /\ served = [r \in Requests |-> "none"]
    /\ fetches = [r \in Requests |-> 0]
    /\ district_codes = [r \in Requests |-> <<>>]
    /\ idx = [r \in Requests |-> 0]
    /\ success_count = [r \in Requests |-> 0]
    /\ statusCall = NoCall
    /\ zeroRuns = 0
    /\ dbFaulty = FALSE
    /\ districtStats = {}
    /\ probe \in SavePayloads
    /\ answer = NoSave

\* one call of _save_district_data_to_cache with the record under test; a
\* later call reads the clock later than the call before it; prev is the
\* row the call found for the key, last the record it returns
Save ==
    /\ answer.applied < MaxApplies
    /\ answer.applied > 0 => now > answer.at
    /\ districtData' = SaveDistrictDataToCache(
                           districtData, probe, probe.district_code,
                           probe.year, now)
    /\ answer' = [applied |-> answer.applied + 1,
                  at |-> now,
                  prev |-> LET existing == GetCachedDistrictData(
                                               districtData,
                                               probe.district_code, probe.year)
                           IN  IF existing = None THEN None
                               ELSE FormatDistrictData(existing),
                  last |-> FormatDistrictData(
                               SavedRow(districtData, probe,
                                        probe.district_code, probe.year, now))]
    /\ UNCHANGED <<now, cacheStatus, reqVars, statusCall, zeroRuns, dbFaulty,
                   districtStats, probe>>

NextSave ==
    \/ Tick /\ UNCHANGED restVars
    \/ Save

SaveSpec == InitSave /\ [][NextSave]_vars

\* the fields of a fetched record
PayloadFields(rec) ==
    <<rec.district_code, rec.district_name, rec.state_name, rec.year,
      rec.active_workers, rec.total_person_days,
      rec.average_days_per_household, rec.employment_provided_percentage,
      rec.timely_payment_percentage, rec.total_expenditure, rec.data_source,
      rec.is_cached>>

\* C13 (upsert idempotence): after _save_district_data_to_cache has been
\* applied twice with the same fetched record for the same key, the table
\* holds exactly one row for that key and every field of the row equals the
\* field of the fetched record.
C13_Idempotent ==
    answer.applied >= 2
        => LET m == {row \in districtData :
                        /\ row.district_code = probe.district_code
                        /\ row.year = probe.year}
           IN  /\ Cardinality(m) = 1
               /\ \A row \in m : PayloadFields(row) = PayloadFields(probe)

\* the record was created by the first call, next to another district's
\* row, and overwritten by the second
C13_Witness ==
    /\ answer.applied = 2
    /\ Cardinality(districtData) = 2
    /\ \E row \in districtData :
          /\ row.id = 2
          /\ row.district_code = probe.district_code
          /\ row.total_person_days = probe.total_person_days
          /\ row.last_updated > 0

\* C14: a successful upsert of a district_data row stamps last_updated with
\* the clock reading of the call, in the stored row and in the returned
\* record, and the stamp is strictly greater than the one the row of that
\* key carried before the call.
C14_Stamped ==
    answer.applied >= 1
        => /\ answer.last.last_updated = answer.at
           /\ \A row \in districtData :
                  (row.district_code = probe.district_code
                   /\ row.year = probe.year) => row.last_updated = answer.at
           /\ answer.prev # None
                  => answer.last.last_updated > answer.prev.last_updated

\* the second of two upserts made by this process, one tick apart
C14_Witness ==
    /\ answer.applied = 2
    /\ answer.prev # None
    /\ answer.prev.last_updated = TickHours
    /\ answer.last.last_updated = 2 * TickHours
    /\ answer.at = 2 * TickHours

----------------------------------------------------------------------------
(* get_district_data called again for a key it has stored *)

\* nothing stored by this process yet
NoFirst == [d \in Districts |-> None]

\* probe remembers, per district, the record returned by the call that
\* stored its row, and whether another call has rewritten the row since
Remember(memo, code, how, rec) ==
    IF how = "created"
    THEN [memo EXCEPT ![code] = [first |-> rec, rewritten |-> FALSE]]
    ELSE IF how = "updated" /\ memo[code] # None
         THEN [memo EXCEPT ![code].rewritten = TRUE]
         ELSE memo

InitRoundTrip ==
    /\ InitCommon
    /\ dbFaulty = FALSE
    /\ districtStats = {}
    /\ probe = NoFirst
    /\ answer = None

NextRoundTrip ==
    \/ Tick /\ UNCHANGED restVars
    \/ \E r \in Requests, code \in Districts, year \in YearArgs :
           GetDistrictDataStart(r, code, year) /\ UNCHANGED restVars
    \/ \E r \in Requests, fetchOk \in BOOLEAN :
           /\ GetDistrictDataResume(r, fetchOk, TRUE)
           /\ probe' = Remember(probe, district_code[r], served'[r],
                                result'[r])
           /\ UNCHANGED <<districtStats, answer>>
    \/ \E r \in Requests : Return(r) /\ UNCHANGED restVars

RoundTripSpec == InitRoundTrip /\ [][NextRoundTrip]_vars

\* a returned record without its timestamp
ValuesOf(rec) ==
    <<rec.district_code, rec.district_name, rec.state_name, rec.year,
      rec.active_workers, rec.total_person_days,
      rec.average_days_per_household, rec.employment_provided_percentage,
      rec.timely_payment_percentage, rec.total_expenditure, rec.is_cached,
      rec.data_source>>

\* C15 (round trip): once a get_district_data call that found no cached row
\* has fetched and stored a record, a call for the same key that starts less
\* than 24h after that record was stored returns at once, without a source
\* call, the values the first call returned; the whole record, last_updated
\* included, is the same unless a concurrent call rewrote the row meanwhile.
C15_RoundTrip ==
    [][\A r \in Requests, code \in Districts, year \in YearArgs :
         (/\ GetDistrictDataStart(r, code, year)
          /\ probe[code] # None
          /\ now - probe[code].first.last_updated < CacheDurationHours)
             => /\ pc'[r] = "done"
                /\ fetches'[r] = 0
                /\ ValuesOf(result'[r]) = ValuesOf(probe[code].first)
                /\ ~probe[code].rewritten
                       => result'[r] = probe[code].first]_vars

\* a second call, some hours after the first, answered with the record the
\* first call returned
C15_Witness ==
    \E r \in Requests :
        /\ ReadDone(r)
        /\ served[r] = "cache"
        /\ fetches[r] = 0
        /\ probe[district_code[r]] # None
        /\ ~probe[district_code[r]].rewritten
        /\ result[r] = probe[district_code[r]].first
        /\ result[r].total_person_days = 1000
        /\ result[r].total_expenditure = 50
        /\ now > result[r].last_updated

----------------------------------------------------------------------------
(* Write failures *)

\* what a caller of get_district_data can tell apart
Outcome(r) ==
    IF result[r] # None THEN "record"
    ELSE IF served[r] = "raised" THEN "internal_failure"
    ELSE "not_found"

\* C16 (persistence failure in the read path): when the source fetch of a
\* get_district_data call succeeds and the write-back upsert fails, the
\* caller is given an internal failure, neither None (not found) nor a
\* record.
C16_HardFailure ==
    \A r \in Requests :
        (ReadDone(r) /\ served[r] = "error")
            => Outcome(r) = "internal_failure"

----------------------------------------------------------------------------
(* get_district_stats *)

\* round(100 * n / d, 2) for d > 0, in hundredths, ties to even
RoundedPercent(n, d) ==
    LET scaled == 10000 * n
        q == scaled \div d
        rem == scaled % d
    IN  IF 2 * rem < d THEN q
        ELSE IF 2 * rem > d THEN q + 1
        ELSE IF q % 2 = 0 THEN q ELSE q + 1

MinOf(a, b) == IF a < b THEN a ELSE b

\* a lookup that never finds the cached stats
CachedStatsMutMiss(stats_rows, code) == None

\* query(DistrictStats).filter(district_code == ...).first()
CachedStats(stats_rows, code) ==
    LET m == {row \in stats_rows : row.district_code = code}
    IN  IF m = {} THEN None
        ELSE CHOOSE row \in m : \A other \in m : row.id <= other.id

\* the rows of a district by ascending year
RecentDataMutAscending(rows, code) ==
    LET m == {row \in rows : row.district_code = code}
        Older(row) == {other \in m : other.year < row.year
                                     \/ (other.year = row.year /\ other.id < row.id)}
    IN  [i \in 1..MinOf(Cardinality(m), 3) |->
            CHOOSE row \in m : Cardinality(Older(row)) = i - 1]

\* the rows of a district, by descending year, at most three of them
RecentData(rows, code) ==
    LET m == {row \in rows : row.district_code = code}
        Newer(row) == {other \in m : other.year > row.year
                                     \/ (other.year = row.year /\ other.id < row.id)}
    IN  [i \in 1..MinOf(Cardinality(m), 3) |->
            CHOOSE row \in m : Cardinality(Newer(row)) = i - 1]

\* a calculation that invents zero-valued stats for a district without rows
CalculateDistrictStatsMutDefault(rows, code, t) ==
    [district_name |-> DistrictName(code),
     state_name |-> StateName(code),
     performance_score |-> 0,
     employment_rank |-> 0,
     expenditure_rank |-> 0,
     employment_trend |-> 0,
     expenditure_trend |-> 0,
     state_average_comparison |-> 0,
     national_average_comparison |-> 0,
     total_beneficiaries |-> 0,
     total_investment |-> 0,
     calculation_date |-> t]

\* a calculation that divides by 1 where the previous figure is 0
CalculateDistrictStatsMutNoGuard(rows, code, t) ==
    LET recent_data == RecentData(rows, code)
    IN  IF Len(recent_data) = 0 THEN None
        ELSE LET latest_data == recent_data[1]
                 performance_score ==
                     40 * latest_data.employment_provided_percentage
                     + 30 * latest_data.timely_payment_percentage
                     + 30 * MinOf(latest_data.average_days_per_household, 100)
                 current == recent_data[1]
                 previous == recent_data[2]
                 employment_trend ==
                     IF Len(recent_data) >= 2
                     THEN RoundedPercent(current.total_person_days
                                         - previous.total_person_days,
                                         IF previous.total_person_days > 0
                                         THEN previous.total_person_days
                                         ELSE 1)
                     ELSE 0
                 expenditure_trend ==
                     IF Len(recent_data) >= 2
                     THEN RoundedPercent(current.total_expenditure
                                         - previous.total_expenditure,
                                         IF previous.total_expenditure > 0
                                         THEN previous.total_expenditure
                                         ELSE 1)
                     ELSE 0
             IN  [district_name |-> latest_data.district_name,
                  state_name |-> latest_data.state_name,
                  performance_score |-> performance_score,
                  employment_rank |-> 0,
                  expenditure_rank |-> 0,
                  employment_trend |-> employment_trend,
                  expenditure_trend |-> expenditure_trend,
                  state_average_comparison |-> 0,
                  national_average_comparison |-> 0,
                  total_beneficiaries |-> latest_data.active_workers,
                  total_investment |-> latest_data.total_expenditure,
                  calculation_date |-> t]

\* a calculation that does not cap the days per household at 100
CalculateDistrictStatsMutUncapped(rows, code, t) ==
    LET recent_data == RecentData(rows, code)
    IN  IF Len(recent_data) = 0 THEN None
        ELSE LET latest_data == recent_data[1]
                 performance_score ==
                     40 * latest_data.employment_provided_percentage
                     + 30 * latest_data.timely_payment_percentage
                     + 30 * latest_data.average_days_per_household
                 current == recent_data[1]
                 previous == recent_data[2]
                 employment_trend ==
                     IF Len(recent_data) >= 2 /\ previous.total_person_days > 0
                     THEN RoundedPercent(current.total_person_days
                                         - previous.total_person_days,
                                         previous.total_person_days)
                     ELSE 0
                 expenditure_trend ==
                     IF Len(recent_data) >= 2 /\ previous.total_expenditure > 0
                     THEN RoundedPercent(current.total_expenditure
                                         - previous.total_expenditure,
                                         previous.total_expenditure)
                     ELSE 0
             IN  [district_name |-> latest_data.district_name,
                  state_name |-> latest_data.state_name,
                  performance_score |-> performance_score,
                  employment_rank |-> 0,
                  expenditure_rank |-> 0,
                  employment_trend |-> employment_trend,
                  expenditure_trend |-> expenditure_trend,
                  state_average_comparison |-> 0,
                  national_average_comparison |-> 0,
                  total_beneficiaries |-> latest_data.active_workers,
                  total_investment |-> latest_data.total_expenditure,
                  calculation_date |-> t]

\* _calculate_district_stats; performance_score and the two trends are in
\* hundredths
CalculateDistrictStats(rows, code, t) ==
    LET recent_data == RecentData(rows, code)
    IN  IF Len(recent_data) = 0 THEN None
        ELSE LET latest_data == recent_data[1]
                 performance_score ==
                     40 * latest_data.employment_provided_percentage
                     + 30 * latest_data.timely_payment_percentage
                     + 30 * MinOf(latest_data.average_days_per_household, 100)
                 current == recent_data[1]
                 previous == recent_data[2]
                 employment_trend ==
                     IF Len(recent_data) >= 2 /\ previous.total_person_days > 0
                     THEN RoundedPercent(current.total_person_days
                                         - previous.total_person_days,
                                         previous.total_person_days)
                     ELSE 0
                 expenditure_trend ==
                     IF Len(recent_data) >= 2 /\ previous.total_expenditure > 0
                     THEN RoundedPercent(current.total_expenditure
                                         - previous.total_expenditure,
                                         previous.total_expenditure)
                     ELSE 0
             IN  [district_name |-> latest_data.district_name,
                  state_name |-> latest_data.state_name,
                  performance_score |-> performance_score,
                  employment_rank |-> 0,
                  expenditure_rank |-> 0,
                  employment_trend |-> employment_trend,
                  expenditure_trend |-> expenditure_trend,
                  state_average_comparison |-> 0,
                  national_average_comparison |-> 0,
                  total_beneficiaries |-> latest_data.active_workers,
                  total_investment |-> latest_data.total_expenditure,
                  calculation_date |-> t]

\* the row _save_district_stats_to_cache writes
SavedStatsRow(stats_rows, stats, code, t) ==
    LET existing == CachedStats(stats_rows, code)
    IN  [id |-> IF existing # None THEN existing.id
                ELSE Cardinality(stats_rows) + 1,
         district_code |-> code,
         district_name |-> stats.district_name,
         state_name |-> stats.state_name,
         performance_score |-> stats.performance_score,
         employment_rank |-> stats.employment_rank,
         expenditure_rank |-> stats.expenditure_rank,
         employment_trend |-> stats.employment_trend,
         expenditure_trend |-> stats.expenditure_trend,
         state_average_comparison |-> stats.state_average_comparison,
         national_average_comparison |-> stats.national_average_comparison,
         total_beneficiaries |-> stats.total_beneficiaries,
         total_investment |-> stats.total_investment,
         calculation_date |-> stats.calculation_date,
         last_updated |-> t]

\* a save that leaves its write in the table although the commit failed
SaveDistrictStatsToCacheMutNoRollback(stats_rows, stats, code, t, commitOk) ==
    LET existing == CachedStats(stats_rows, code)
    IN  (stats_rows \ (IF existing = None THEN {} ELSE {existing}))
            \cup {SavedStatsRow(stats_rows, stats, code, t)}

\* _save_district_stats_to_cache: the table after the call; a failed commit
\* is rolled back and not re-raised
SaveDistrictStatsToCache(stats_rows, stats, code, t, commitOk) ==
    LET existing == CachedStats(stats_rows, code)
    IN  IF commitOk
        THEN (stats_rows \ (IF existing = None THEN {} ELSE {existing}))
                 \cup {SavedStatsRow(stats_rows, stats, code, t)}
        ELSE stats_rows

\* _format_district_stats
FormatDistrictStats(row) ==
    [district_code |-> row.district_code,
     district_name |-> row.district_name,
     state_name |-> row.state_name,
     performance_score |-> row.performance_score,
     employment_rank |-> row.employment_rank,
     expenditure_rank |-> row.expenditure_rank,
     employment_trend |-> row.employment_trend,
     expenditure_trend |-> row.expenditure_trend,
     state_average_comparison |-> row.state_average_comparison,
     national_average_comparison |-> row.national_average_comparison,
     total_beneficiaries |-> row.total_beneficiaries,
     total_investment |-> row.total_investment,
     calculation_date |-> row.calculation_date,
     last_updated |-> row.last_updated]

\* whether the query of _calculate_district_stats comes back; when it
\* raises, lines 456-458 return None
CalcOutcomes == IF dbFaulty THEN {TRUE, FALSE} ELSE {TRUE}

\* a stats call that gives up when nothing can be computed
GetDistrictStatsMutNotFound(r, code, commitOk, calcOk) ==
    /\ NoPendingReturn
    /\ pc[r] = "idle"
    /\ LET cached_stats == CachedStats(districtStats, code)
           stats == IF calcOk
                    THEN CalculateDistrictStats(districtData, code, now)
                    ELSE None
       IN  IF cached_stats # None
              /\ ~IsCacheStale(cached_stats.last_updated, now)
           THEN /\ result' = [result EXCEPT ![r] =
                                  FormatDistrictStats(cached_stats)]
                /\ served' = [served EXCEPT ![r] = "cache"]
                /\ districtStats' = districtStats
           ELSE IF stats # None
           THEN /\ districtStats' = SaveDistrictStatsToCache(
                                        districtStats, stats, code, now, commitOk)
                /\ result' = [result EXCEPT ![r] = stats]
                /\ served' = [served EXCEPT ![r] =
                                  IF commitOk THEN "computed" ELSE "unsaved"]
           ELSE /\ districtStats' = districtStats
                /\ result' = [result EXCEPT ![r] = None]
                /\ served' = [served EXCEPT ![r] =
                                  IF cached_stats # None
                                  THEN "stale" ELSE "absent"]
    /\ pc' = [pc EXCEPT ![r] = "done"]
    /\ op' = [op EXCEPT ![r] = "get_district_stats"]
    /\ district_code' = [district_code EXCEPT ![r] = code]
    /\ UNCHANGED <<now, districtData, cacheStatus, current_year, cached_data,
                   fetches, district_codes, idx, success_count, statusCall,
                   zeroRuns, dbFaulty, probe, answer>>

\* get_district_stats: _calculate_district_stats awaits nothing, so the
\* whole call is one step. served tells which return statement answered:
\* "cache" (line 101), "computed" (line 109), "unsaved" (line 109 after a
\* failed commit in the save), "stale" (line 113), "absent" (line 115)
GetDistrictStats(r, code, commitOk, calcOk) ==
    /\ NoPendingReturn
    /\ pc[r] = "idle"
    /\ LET cached_stats == CachedStats(districtStats, code)
           stats == IF calcOk
                    THEN CalculateDistrictStats(districtData, code, now)
                    ELSE None
       IN  IF cached_stats # None
              /\ ~IsCacheStale(cached_stats.last_updated, now)
           THEN /\ result' = [result EXCEPT ![r] =
                                  FormatDistrictStats(cached_stats)]
                /\ served' = [served EXCEPT ![r] = "cache"]
                /\ districtStats' = districtStats
           ELSE IF stats # None
           THEN /\ districtStats' = SaveDistrictStatsToCache(
                                        districtStats, stats, code, now, commitOk)
                /\ result' = [result EXCEPT ![r] = stats]
                /\ served' = [served EXCEPT ![r] =
                                  IF commitOk THEN "computed" ELSE "unsaved"]
           ELSE /\ districtStats' = districtStats
                /\ result' = [result EXCEPT ![r] =
                                  IF cached_stats # None
                                  THEN FormatDistrictStats(cached_stats)
                                  ELSE None]
                /\ served' = [served EXCEPT ![r] =
                                  IF cached_stats # None
                                  THEN "stale" ELSE "absent"]
    /\ pc' = [pc EXCEPT ![r] = "done"]
    /\ op' = [op EXCEPT ![r] = "get_district_stats"]
    /\ district_code' = [district_code EXCEPT ![r] = code]
    /\ UNCHANGED <<now, districtData, cacheStatus, current_year, cached_data,
                   fetches, district_codes, idx, success_count, statusCall,
                   zeroRuns, dbFaulty, probe, answer>>

\* the stats service is exercised by one caller at a time
StatsRequests == {1}

\* the store holds rows of an earlier process; commits may fail
InitStats ==
    /\ now = 0
    /\ districtData \in LegacyStores
    /\ cacheStatus = [t \in DataTypes |-> None]
    /\ pc = [r \in Requests |-> "idle"]
    /\ op = [r \in Requests |-> "none"]
    /\ district_code = [r \in Requests |-> ""]
    /\ current_year = [r \in Requests |-> 0]
    /\ cached_data = [r \in Requests |-> None]
    /\ result = [r \in Requests |-> None]
    /\ served = [r \in Requests |-> "none"]
    /\ fetches = [r \in Requests |-> 0]
    /\ district_codes = [r \in Requests |-> <<>>]
    /\ idx = [r \in Requests |-> 0]
    /\ success_count = [r \in Requests |-> 0]
    /\ statusCall = NoCall
    /\ zeroRuns = 0
    /\ dbFaulty = TRUE
    /\ InitRest

NextStats ==
    \/ Tick /\ UNCHANGED restVars
    \/ \E r \in StatsRequests, code \in Districts, year \in YearArgs :
           GetDistrictDataStart(r, code, year) /\ UNCHANGED restVars
    \/ \E r \in StatsRequests, fetchOk \in BOOLEAN,
          commitOk \in CommitOutcomes :
           GetDistrictDataResume(r, fetchOk, commitOk) /\ UNCHANGED restVars
    \/ \E r \in StatsRequests, code \in Districts,
          commitOk \in CommitOutcomes, calcOk \in CalcOutcomes :
           GetDistrictStats(r, code, commitOk, calcOk)
    \/ \E r \in StatsRequests : Return(r) /\ UNCHANGED restVars

StatsSpec == InitStats /\ [][NextStats]_vars

----------------------------------------------------------------------------
(* Properties of the stats path and of failed writes *)

StatsDone(r) == pc[r] = "done" /\ op[r] = "get_district_stats"

\* C17 (persistence failure in the stats path): when the upsert of the
\* recomputed stats fails, the caller of get_district_stats is given an
\* internal failure and not the unpersisted stats.
C17_StatsHardFailure ==
    \A r \in Requests :
        (StatsDone(r) /\ served[r] = "unsaved")
            => Outcome(r) = "internal_failure"

\* a step in which a call ends on an upsert whose commit failed
FailedUpsertStep(r) ==
    /\ pc[r] # "done"
    /\ pc'[r] = "done"
    /\ served'[r] \in {"error", "unsaved"}

\* C18 (state unchanged on write failure): a call whose upsert of a
\* district_data or district_stats row fails leaves the rows of both tables
\* exactly as they were before the call's write.
C18_RolledBack ==
    [][\A r \in Requests :
         FailedUpsertStep(r)
             => /\ districtData' = districtData
                /\ districtStats' = districtStats]_vars

\* a failed upsert over an existing stats row that was due for replacement
C18_Witness ==
    \E r \in Requests :
        /\ StatsDone(r)
        /\ served[r] = "unsaved"
        /\ CachedStats(districtStats, district_code[r]) # None
        /\ CachedStats(districtStats, district_code[r]).last_updated < now
        /\ CachedStats(districtStats, district_code[r]).total_investment
               # result[r].total_investment

\* C20 (stats recompute returns what it persists): the record returned by a
\* get_district_stats call that recomputed carries district_code and
\* last_updated and equals the formatted row the call upserted, which is
\* what a following call served from the cache returns.
C20_ReturnsPersisted ==
    \A r \in Requests :
        (StatsDone(r) /\ served[r] = "computed")
            => /\ {"district_code", "last_updated"} \subseteq DOMAIN result[r]
               /\ result[r] = FormatDistrictStats(
                                  CachedStats(districtStats, district_code[r]))

----------------------------------------------------------------------------
(* _is_cache_stale as a function of the timestamp and the clock *)

MaxStamp == 8

\* timestamps of a row, in hours, or no timestamp
StaleStamps == {Null} \cup 0..MaxStamp

\* clock readings that put the stamps at ages around the cache duration
StaleNows == {CacheDurationHours + d : d \in 0..MaxStamp}

InitStale ==
    /\ InitCommon
    /\ dbFaulty = FALSE
    /\ districtStats = {}
    /\ probe \in StaleStamps
    /\ answer = None

\* the clock of the call
SetClock(t) ==
    /\ answer = None
    /\ now = 0
    /\ now' = t
    /\ UNCHANGED <<districtData, cacheStatus, reqVars, statusCall, zeroRuns,
                   dbFaulty, districtStats, probe, answer>>

IsCacheStaleCall ==
    /\ answer = None
    /\ now > 0
    /\ answer' = [stale |-> IsCacheStale(probe, now)]
    /\ UNCHANGED <<serviceVars, districtStats, probe>>

NextStale ==
    \/ \E t \in StaleNows : SetClock(t)
    \/ IsCacheStaleCall

StaleSpec == InitStale /\ [][NextStale]_vars

\* C19 (staleness policy): _is_cache_stale(last_updated) is true exactly
\* when last_updated is missing or now - last_updated >= 24h, the boundary
\* now - last_updated = 24h included, and false otherwise.
C19_StaleAtBoundary ==
    answer # None
        => (answer.stale <=> (probe = Null
                              \/ now - probe >= CacheDurationHours))

\* C21 (stats absence): a get_district_stats call for a district with no
\* district_data row and no district_stats row returns None and leaves the
\* district_stats table without a row for it.
C21_StatsAbsence ==
    [][\A r \in Requests, code \in Districts, commitOk \in BOOLEAN,
          calcOk \in BOOLEAN :
         (/\ GetDistrictStats(r, code, commitOk, calcOk)
          /\ {row \in districtData : row.district_code = code} = {}
          /\ {row \in districtStats : row.district_code = code} = {})
             => /\ result'[r] = None
                /\ districtStats' = districtStats]_vars

\* stats were asked for a district without rows while another district has
\* rows
C21_Witness ==
    \E r \in Requests :
        /\ StatsDone(r)
        /\ served[r] = "absent"
        /\ result[r] = None
        /\ districtData # {}
        /\ \A row \in districtData : row.district_code # district_code[r]
        /\ \A row \in districtStats : row.district_code # district_code[r]

----------------------------------------------------------------------------
(* _calculate_district_stats as a function of the rows of one district *)

\* the years a district can have rows for
CalcYears == {CurrentYear - 2, CurrentYear - 1, CurrentYear}

\* the figures of a row: zero (the column defaults), two ordinary years, a
\* year of more than 100 days per household, a year without expenditure
CalcProfiles ==
    {[total_person_days |-> 0, total_expenditure |-> 0, active_workers |-> 0,
      average_days_per_household |-> 0,
      employment_provided_percentage |-> 0, timely_payment_percentage |-> 0],
     [total_person_days |-> 800, total_expenditure |-> 40,
      active_workers |-> 100, average_days_per_household |-> 50,
      employment_provided_percentage |-> 50, timely_payment_percentage |-> 80],
     [total_person_days |-> 1000, total_expenditure |-> 50,
      active_workers |-> 120, average_days_per_household |-> 120,
      employment_provided_percentage |-> 100,
      timely_payment_percentage |-> 90],
     [total_person_days |-> 600, total_expenditure |-> 0,
      active_workers |-> 80, average_days_per_household |-> 30,
      employment_provided_percentage |-> 30, timely_payment_percentage |-> 75]}

CalcRow(code, year, profile) ==
    [id |-> DistrictIndex(code) * 10 + (CurrentYear - year),
     district_code |-> code,
     district_name |-> DistrictName(code),
     state_name |-> StateName(code),
     year |-> year,
     active_workers |-> profile.active_workers,
     total_person_days |-> profile.total_person_days,
     average_days_per_household |-> profile.average_days_per_household,
     employment_provided_percentage |->
         profile.employment_provided_percentage,
     timely_payment_percentage |-> profile.timely_payment_percentage,
     total_expenditure |-> profile.total_expenditure,
     data_source |-> "data.gov.in",
     is_cached |-> TRUE,
     last_updated |-> 0]

\* the tables under test: any choice of a profile or of no row per year for
\* the district asked for, with or without a row of the other district
CalcStores ==
    {{CalcRow("AP001", y, f[y]) : y \in {z \in CalcYears : f[z] # None}}
         \cup other :
       f \in [CalcYears -> CalcProfiles \cup {None}],
       other \in {{}, {CalcRow("BR001", CurrentYear,
                               GenerateSampleDistrictData("BR001",
                                                          CurrentYear))}}}

InitCalc ==
    /\ now = 0
    /\ districtData \in CalcStores
    /\ cacheStatus = [t \in DataTypes |-> None]
    /\ pc = [r \in Requests |-> "idle"]
    /\ op = [r \in Requests |-> "none"]
    /\ district_code = [r \in Requests |-> ""]
    /\ current_year = [r \in Requests |-> 0]
    /\ cached_data = [r \in Requests |-> None]
    /\ result = [r \in Requests |-> None]
    /\ served = [r \in Requests |-> "none"]
    /\ fetches = [r \in Requests |-> 0]
    /\ district_codes = [r \in Requests |-> <<>>]
    /\ idx = [r \in Requests |-> 0]
    /\ success_count = [r \in Requests |-> 0]
    /\ statusCall = NoCall
    /\ zeroRuns = 0
    /\ dbFaulty = FALSE
    /\ districtStats = {}
    /\ probe = "AP001"
    /\ answer = None

CalculateDistrictStatsCall ==
    /\ answer = None
    /\ answer' = [stats |-> CalculateDistrictStats(districtData, probe, now)]
    /\ UNCHANGED <<serviceVars, districtStats, probe>>

NextCalc == CalculateDistrictStatsCall

CalcSpec == InitCalc /\ [][NextCalc]_vars

\* the rows of the district under test
ProbeRows == {row \in districtData : row.district_code = probe}

\* the row with the greatest year, and the one with the next greatest year
CurrentRow == CHOOSE row \in ProbeRows : \A o \in ProbeRows : o.year <= row.year

PreviousRow ==
    CHOOSE row \in ProbeRows \ {CurrentRow} :
        \A o \in ProbeRows \ {CurrentRow} : o.year <= row.year

\* C22 (trend guard): with two or more rows, a previous total_person_days
\* of 0 gives employment_trend exactly 0 and a previous total_expenditure
\* of 0 gives expenditure_trend exactly 0; the calculation still returns
\* its stats (no division by zero fails it).
C22_TrendGuard ==
    (answer # None /\ Cardinality(ProbeRows) >= 2)
        => /\ answer.stats # None
           /\ PreviousRow.total_person_days = 0
                  => answer.stats.employment_trend = 0
           /\ PreviousRow.total_expenditure = 0
                  => answer.stats.expenditure_trend = 0

\* stats over a previous year of 600 person-days and no expenditure,
\* followed by a year with both
C22_Witness ==
    /\ answer # None
    /\ Cardinality(ProbeRows) >= 2
    /\ PreviousRow.total_expenditure = 0
    /\ PreviousRow.total_person_days = 600
    /\ CurrentRow.total_expenditure = 50
    /\ answer.stats.expenditure_trend = 0
    /\ answer.stats.employment_trend > 0

Abs(n) == IF n < 0 THEN -n ELSE n

\* trend (in hundredths) is 100 * (current - previous) / previous rounded
\* to two decimals
IsTrend(trend, current, previous) ==
    2 * Abs(trend * previous - 10000 * (current - previous)) <= previous

\* C23 (trend formula): with two or more rows of a district the trends are
\* taken between the row of the greatest year (current) and the row of the
\* next greatest year (previous) as (current - previous) / previous * 100,
\* to two decimals, whenever previous is not 0; previous 800 and current
\* 1000 give employment_trend = 25.
C23_TrendFormula ==
    (answer # None /\ Cardinality(ProbeRows) >= 2)
        => /\ answer.stats # None
           /\ PreviousRow.total_person_days # 0
                  => IsTrend(answer.stats.employment_trend,
                             CurrentRow.total_person_days,
                             PreviousRow.total_person_days)
           /\ PreviousRow.total_expenditure # 0
                  => IsTrend(answer.stats.expenditure_trend,
                             CurrentRow.total_expenditure,
                             PreviousRow.total_expenditure)
           /\ (PreviousRow.total_person_days = 800
               /\ CurrentRow.total_person_days = 1000)
                  => answer.stats.employment_trend = 2500

\* three years of rows, the last two with 800 then 1000 person-days: the trend is
\* taken from the last two
C23_Witness ==
    /\ answer # None
    /\ Cardinality(ProbeRows) = 3
    /\ CurrentRow.year = CurrentYear
    /\ CurrentRow.total_person_days = 1000
    /\ PreviousRow.year = CurrentYear - 1
    /\ PreviousRow.total_person_days = 800
    /\ answer.stats.employment_trend = 2500
    /\ answer.stats.expenditure_trend = 2500

\* the score of a row, in hundredths: 0.4, 0.3 and 0.3 of its employment
\* percentage, its timely payment percentage and its days per household,
\* the latter counted up to 100
ScoreOf(row) ==
    40 * row.employment_provided_percentage
    + 30 * row.timely_payment_percentage
    + 30 * (IF row.average_days_per_household > 100 THEN 100
            ELSE row.average_days_per_household)

\* C24: with exactly one district_data row for a district the calculation
\* succeeds, both trends are 0 and the performance score is the score of
\* that row.
C24_SingleRow ==
    (answer # None /\ Cardinality(ProbeRows) = 1)
        => /\ answer.stats # None
           /\ answer.stats.employment_trend = 0
           /\ answer.stats.expenditure_trend = 0
           /\ \A row \in ProbeRows :
                  /\ answer.stats.performance_score = ScoreOf(row)
                  /\ answer.stats.total_investment = row.total_expenditure
                  /\ answer.stats.total_beneficiaries = row.active_workers

\* the only row of the district is an earlier year's, with more than 100
\* days per household, while the other district has a current row
C24_Witness ==
    /\ answer # None
    /\ Cardinality(ProbeRows) = 1
    /\ Cardinality(districtData) = 2
    /\ \A row \in ProbeRows :
          /\ row.year = CurrentYear - 1
          /\ row.average_days_per_household = 120
    /\ answer.stats.performance_score = 9700
    /\ answer.stats.employment_trend = 0

----------------------------------------------------------------------------
(* DataGovClient._make_api_request: the retry loop *)

RetryAttempts == 3

RetryDelay == 2

\* what one requests.get + raise_for_status + json() can do: succeed, raise
\* a RequestException (timeout, HTTP error status), raise something else
Responses == {"ok", "timeout", "http_error", "other_error"}

Transient == {"timeout", "http_error"}

\* the responses the server would give to each attempt of one call
Scripts == [1..RetryAttempts -> Responses]

\* a call at the top of its loop, before the first attempt
NewCall(script) ==
    [script |-> script, attempt |-> 0, pc |-> "request", made |-> 0,
     slept |-> <<>>, ret |-> "pending"]

\* a loop that sleeps the base delay after every failure
AfterResponseMutFlatDelay(call, response) ==
    LET c == [call EXCEPT !.made = @ + 1]
    IN  IF response = "ok"
        THEN [c EXCEPT !.pc = "returned", !.ret = "data"]
        ELSE IF response \in Transient
        THEN IF call.attempt < RetryAttempts - 1
             THEN [c EXCEPT !.pc = "sleep",
                            !.slept = Append(@, RetryDelay)]
             ELSE [c EXCEPT !.pc = "returned", !.ret = "none"]
        ELSE [c EXCEPT !.pc = "returned", !.ret = "none"]

\* a loop that gives up one attempt early
AfterResponseMutEarlyStop(call, response) ==
    LET c == [call EXCEPT !.made = @ + 1]
    IN  IF response = "ok"
        THEN [c EXCEPT !.pc = "returned", !.ret = "data"]
        ELSE IF response \in Transient
        THEN IF call.attempt < RetryAttempts - 2
             THEN [c EXCEPT !.pc = "sleep",
                            !.slept = Append(@, RetryDelay * (call.attempt + 1))]
             ELSE [c EXCEPT !.pc = "returned", !.ret = "none"]
        ELSE [c EXCEPT !.pc = "returned", !.ret = "none"]

\* lines 234-265: one pass through the body of the loop, up to the return
\* or the start of the sleep
AfterResponse(call, response) ==
    LET c == [call EXCEPT !.made = @ + 1]
    IN  IF response = "ok"
        THEN [c EXCEPT !.pc = "returned", !.ret = "data"]
        ELSE IF response \in Transient
        THEN IF call.attempt < RetryAttempts - 1
             THEN [c EXCEPT !.pc = "sleep",
                            !.slept = Append(@, RetryDelay * (call.attempt + 1))]
             ELSE [c EXCEPT !.pc = "returned", !.ret = "none"]
        ELSE [c EXCEPT !.pc = "returned", !.ret = "none"]

InitRetry ==
    /\ InitCommon
    /\ dbFaulty = FALSE
    /\ districtStats = {}
    /\ probe \in {NewCall(script) : script \in Scripts}
    /\ answer = None

\* requests.get returns or raises within its timeout
MakeApiRequestAttempt ==
    /\ probe.pc = "request"
    /\ probe' = AfterResponse(probe, probe.script[probe.attempt + 1])
    /\ answer' = IF probe'.pc = "returned" THEN [ret |-> probe'.ret]
                 ELSE answer
    /\ UNCHANGED <<serviceVars, districtStats>>

\* asyncio.sleep is over: the next iteration of the loop
MakeApiRequestWake ==
    /\ probe.pc = "sleep"
    /\ probe' = [probe EXCEPT !.pc = "request", !.attempt = @ + 1]
    /\ UNCHANGED <<serviceVars, districtStats, answer>>

NextRetry ==
    \/ MakeApiRequestAttempt
    \/ MakeApiRequestWake

RetrySpec == InitRetry /\ [][NextRetry]_vars

\* the blocking request ends within its timeout and the event loop wakes
\* the sleeper
RetryFairSpec == RetrySpec /\ WF_vars(NextRetry)

\* the attempts before the first one that is not a transient failure
TransientPrefix(script) ==
    CHOOSE n \in 0..Len(script) :
        /\ \A i \in 1..n : script[i] \in Transient
        /\ n < Len(script) => script[n + 1] \notin Transient

\* C25 (retry budget): _make_api_request makes at most 3 attempts, returns
\* at the first successful attempt without a further one, returns None
\* once 3 attempts have failed with a transient request error, and always
\* returns.
C25_RetryBudget ==
    /\ [](/\ probe.made <= 3
          /\ probe.pc = "returned"
                => LET n == TransientPrefix(probe.script)
                   IN  /\ answer # None
                       /\ n = 3 => (probe.made = 3 /\ answer.ret = "none")
                       /\ (n < 3 /\ probe.script[n + 1] = "ok")
                              => (probe.made = n + 1 /\ answer.ret = "data")
                       /\ answer.ret = "data"
                              => probe.script[probe.made] = "ok")
    /\ <>(probe.pc = "returned")

\* the call has returned None after three transient failures
C25_Witness ==
    /\ probe.pc = "returned"
    /\ probe.made = 3
    /\ \A i \in 1..3 : probe.script[i] \in Transient
    /\ answer = [ret |-> "none"]

\* C26 (backoff): after the k-th failed attempt, k = 1, 2, the call waits
\* 2 * k seconds (2, then 4) before the next attempt, and it does not wait
\* after the third failed attempt.
C26_Backoff ==
    LET n == TransientPrefix(probe.script)
        failed == IF probe.made <= n THEN probe.made ELSE n
    IN  /\ probe.slept = [k \in 1..(IF failed < 2 THEN failed ELSE 2) |-> 2 * k]
        /\ probe.pc = "sleep" => probe.made = Len(probe.slept)
        /\ (probe.pc = "returned" /\ n = 3) => probe.slept = <<2, 4>>

\* between the second and the third attempt: 2 and 4 seconds waited
C26_Witness ==
    /\ probe.pc = "request"
    /\ probe.made = 2
    /\ probe.attempt = 2
    /\ probe.slept = <<2, 4>>

----------------------------------------------------------------------------
(* POST /compare and compare_districts *)

MinItems == 2

MaxItems == 5

\* longest list of codes a client sends
MaxCodes == 6

\* the lists of district codes of a comparison request
CodeLists == UNION {[1..n -> Districts] : n \in 0..MaxCodes}

\* a validation that lets every list through
ValidRequestMutAny(codes) == TRUE

\* ComparisonRequest.district_codes: min_items=2, max_items=5
ValidRequest(codes) == Len(codes) >= MinItems /\ Len(codes) <= MaxItems

\* nothing collected yet: the "districts" list and the district_data dict
NoComparison == [districts |-> <<>>, district_data |-> {}]

\* lines 141-148: a record was found for a code
Collected(acc, code, data) ==
    [acc EXCEPT
        !.districts = Append(@, code),
        !.district_data = {d \in @ : d.district_code # code} \cup {data}]

\* lines 130-139: the empty "districts" list and district_data dict of a
\* new call
Cleared(acc) == [acc EXCEPT !.districts = <<>>, !.district_data = {}]

\* the loop of lines 140-148 from position i up to the first code whose
\* get_district_data has to call the source, or to the end of the list
RECURSIVE CompareAdvance(_, _, _, _, _)
CompareAdvance(rows, codes, i, acc, t) ==
    IF i > Len(codes)
    THEN [i |-> i, acc |-> acc, cached |-> None]
    ELSE LET cd == GetCachedDistrictData(rows, codes[i], CurrentYear)
         IN  IF cd # None /\ ~IsCacheStale(cd.last_updated, t)
             THEN CompareAdvance(rows, codes, i + 1,
                                 Collected(acc, codes[i], FormatDistrictData(cd)),
                                 t)
             ELSE [i |-> i, acc |-> acc, cached |-> cd]

\* lines 130-205: the comparison returned; of the summary only the count
ComparisonData(acc, t) ==
    [districts |-> acc.districts,
     year |-> CurrentYear,
     total_person_days |->
         {<<d.district_code, d.total_person_days>> : d \in acc.district_data},
     total_expenditure |->
         {<<d.district_code, d.total_expenditure>> : d \in acc.district_data},
     total_districts_compared |-> Cardinality(acc.district_data),
     generated_at |-> t]

\* go on from position i: suspend on the next source call or return
CompareContinue(r, rows, codes, i, acc) ==
    LET adv == CompareAdvance(rows, codes, i, acc, now)
    IN  /\ probe' = adv.acc
        /\ IF adv.i > Len(codes)
           THEN /\ pc' = [pc EXCEPT ![r] = "done"]
                /\ result' = [result EXCEPT ![r] = ComparisonData(adv.acc, now)]
                /\ served' = [served EXCEPT ![r] = "compared"]
                /\ UNCHANGED <<idx, cached_data, fetches>>
           ELSE /\ pc' = [pc EXCEPT ![r] = "compare_fetch"]
                /\ idx' = [idx EXCEPT ![r] = adv.i]
                /\ cached_data' = [cached_data EXCEPT ![r] = adv.cached]
                /\ fetches' = [fetches EXCEPT ![r] = @ + 1]
                /\ UNCHANGED <<result, served>>

\* the request arrives: validation, then compare_districts up to its first
\* source call
CompareDistrictsStart(r, codes) ==
    /\ NoPendingReturn
    /\ pc[r] = "idle"
    /\ op' = [op EXCEPT ![r] = "compare_districts"]
    /\ district_codes' = [district_codes EXCEPT ![r] = codes]
    /\ IF ~ValidRequest(codes)
       THEN /\ pc' = [pc EXCEPT ![r] = "done"]
            /\ served' = [served EXCEPT ![r] = "validation_error"]
            /\ UNCHANGED <<result, idx, cached_data, fetches, current_year,
                           probe>>
       ELSE /\ current_year' = [current_year EXCEPT ![r] = CurrentYear]
            /\ CompareContinue(r, districtData, codes, 1, Cleared(probe))
    /\ UNCHANGED <<now, districtData, cacheStatus, district_code,
                   success_count, statusCall, zeroRuns, dbFaulty,
                   districtStats, answer>>

\* the source call of get_district_data for district_codes[idx] returned
CompareDistrictsResume(r, fetchOk, commitOk) ==
    /\ NoPendingReturn
    /\ pc[r] = "compare_fetch"
    /\ LET codes == district_codes[r]
           code == codes[idx[r]]
           cy == current_year[r]
           fresh_data == GetDistrictMgnregaData(code, cy, fetchOk)
           data == IF fresh_data # None
                   THEN IF commitOk
                        THEN FormatDistrictData(
                                 SavedRow(districtData, fresh_data, code, cy, now))
                        ELSE None
                   ELSE FallbackResult(cached_data[r])
           rows == IF fresh_data # None /\ commitOk
                   THEN SaveDistrictDataToCache(districtData, fresh_data,
                                                code, cy, now)
                   ELSE districtData
           acc == IF data # None THEN Collected(probe, code, data) ELSE probe
       IN  /\ districtData' = rows
           /\ CompareContinue(r, rows, codes, idx[r] + 1, acc)
    /\ UNCHANGED <<now, cacheStatus, op, district_code, current_year,
                   district_codes, success_count, statusCall, zeroRuns,
                   dbFaulty, districtStats, answer>>

CompareRequests == {1}

InitCompare ==
    /\ now = 0
    /\ districtData \in LegacyStores
    /\ cacheStatus = [t \in DataTypes |-> None]
    /\ pc = [r \in Requests |-> "idle"]
    /\ op = [r \in Requests |-> "none"]
    /\ district_code = [r \in Requests |-> ""]
    /\ current_year = [r \in Requests |-> 0]
    /\ cached_data = [r \in Requests |-> None]
    /\ result = [r \in Requests |-> None]
    /\ served = [r \in Requests |-> "none"]
    /\ fetches = [r \in Requests |-> 0]
    /\ district_codes = [r \in Requests |-> <<>>]
    /\ idx = [r \in Requests |-> 0]
    /\ success_count = [r \in Requests |-> 0]
    /\ statusCall = NoCall
    /\ zeroRuns = 0
    /\ dbFaulty = TRUE
    /\ districtStats = {}
    /\ probe = NoComparison
    /\ answer = None

NextCompare ==
    \/ Tick /\ UNCHANGED restVars
    \/ \E r \in CompareRequests, codes \in CodeLists :
           CompareDistrictsStart(r, codes)
    \/ \E r \in CompareRequests, fetchOk \in BOOLEAN,
          commitOk \in CommitOutcomes :
           CompareDistrictsResume(r, fetchOk, commitOk)
    \/ \E r \in CompareRequests :
           /\ Return(r)
           /\ probe' = NoComparison
           /\ UNCHANGED <<districtStats, answer>>

CompareSpec == InitCompare /\ [][NextCompare]_vars

CompareDone(r) == pc[r] = "done" /\ op[r] = "compare_districts"

\* C27 (comparison validation): a comparison request with fewer than 2 or
\* more than 5 district codes ends in a validation error with no record
\* read, fetched or written; a request with 2 to 5 codes is taken up and
\* ends with a comparison.
C27_Validation ==
    /\ [][\A r \in Requests :
            (CompareDistrictsStart(r, district_codes'[r])
             /\ (Len(district_codes'[r]) < 2 \/ Len(district_codes'[r]) > 5))
                => /\ pc'[r] = "done"
                   /\ served'[r] = "validation_error"
                   /\ result'[r] = None
                   /\ fetches'[r] = 0
                   /\ cached_data'[r] = None
                   /\ districtData' = districtData]_vars
    /\ [](\A r \in Requests :
             CompareDone(r)
                 => IF Len(district_codes[r]) \in 2..5
                    THEN served[r] = "compared" /\ result[r] # None
                    ELSE served[r] = "validation_error")

\* a comparison of five codes has been answered
C27_Witness ==
    \E r \in Requests :
        /\ CompareDone(r)
        /\ Len(district_codes[r]) = 5
        /\ served[r] = "compared"
        /\ result[r].total_districts_compared = 2
        /\ fetches[r] > 0

----------------------------------------------------------------------------
(* The background scheduler: start_scheduler, stop_scheduler and the two
   jobs; requests of GET /refresh-data run beside it *)

RefreshIntervalHours == 6

CleanupHour == 2

\* the scheduler of __init__: not started, no job
NoScheduler ==
    [running |-> FALSE, stopped |-> FALSE, jobs |-> {},
     next_refresh |-> Null, next_cleanup |-> Null]

\* the cron trigger hour=2: the first 2 o'clock after t (the process
\* starts at midnight)
NextCleanupAfter(t) ==
    CHOOSE h \in (t + 1)..(t + 24) : h % 24 = CleanupHour

JobIds == {"data_refresh", "cache_cleanup"}

\* no job has run yet
NoJobRun == [j \in JobIds |-> None]

\* what the last run of a job did: its time and the service operations its
\* body invoked
JobRun(runs, job, t, calls) ==
    [runs EXCEPT ![job] = [at |-> t, calls |-> calls]]

\* lines 532-536: a log line and pass
ScheduledDataRefreshCalls == {}

\* lines 538-542: a log line and pass
CleanupOldCacheCalls == {}

\* lines 23-44, at application startup
StartScheduler ==
    /\ NoPendingReturn
    /\ ~probe.running
    /\ ~probe.stopped
    /\ probe' = [probe EXCEPT
                    !.running = TRUE,
                    !.jobs = JobIds,
                    !.next_refresh = now + RefreshIntervalHours,
                    !.next_cleanup = NextCleanupAfter(now)]
    /\ UNCHANGED <<serviceVars, districtStats, answer>>

\* lines 46-50, at application shutdown
StopScheduler ==
    /\ NoPendingReturn
    /\ probe.running
    /\ probe' = [probe EXCEPT
                    !.running = FALSE,
                    !.stopped = TRUE,
                    !.next_refresh = Null,
                    !.next_cleanup = Null]
    /\ UNCHANGED <<serviceVars, districtStats, answer>>

\* the interval job is due: _scheduled_data_refresh runs
ScheduledDataRefresh ==
    /\ probe.running
    /\ "data_refresh" \in probe.jobs
    /\ now >= probe.next_refresh
    /\ answer' = JobRun(answer, "data_refresh", now,
                         ScheduledDataRefreshCalls)
    /\ probe' = [probe EXCEPT !.next_refresh = now + RefreshIntervalHours]
    /\ UNCHANGED <<serviceVars, districtStats>>

\* a cleanup that deletes the rows of earlier years
CleanupOldCacheMutDeletes ==
    /\ probe.running
    /\ "cache_cleanup" \in probe.jobs
    /\ now >= probe.next_cleanup
    /\ answer' = JobRun(answer, "cache_cleanup", now, CleanupOldCacheCalls)
    /\ probe' = [probe EXCEPT !.next_cleanup = NextCleanupAfter(now)]
    /\ districtData' = {row \in districtData : row.year = CurrentYear}
    /\ UNCHANGED <<now, cacheStatus, reqVars, statusCall, zeroRuns, dbFaulty,
                   districtStats>>

\* the cron job is due: _cleanup_old_cache runs
CleanupOldCache ==
    /\ probe.running
    /\ "cache_cleanup" \in probe.jobs
    /\ now >= probe.next_cleanup
    /\ answer' = JobRun(answer, "cache_cleanup", now, CleanupOldCacheCalls)
    /\ probe' = [probe EXCEPT !.next_cleanup = NextCleanupAfter(now)]
    /\ UNCHANGED <<serviceVars, districtStats>>

\* the clock of the running application: startup comes first
SchedTick ==
    /\ probe.running \/ probe.stopped
    /\ Tick
    /\ UNCHANGED restVars

SchedRequests == {1}

\* the tables were filled by an earlier process
InitSched ==
    /\ now = 0
    /\ districtData \in LegacyStores
    /\ cacheStatus = [t \in DataTypes |-> None]
    /\ pc = [r \in Requests |-> "idle"]
    /\ op = [r \in Requests |-> "none"]
    /\ district_code = [r \in Requests |-> ""]
    /\ current_year = [r \in Requests |-> 0]
    /\ cached_data = [r \in Requests |-> None]
    /\ result = [r \in Requests |-> None]
    /\ served = [r \in Requests |-> "none"]
    /\ fetches = [r \in Requests |-> 0]
    /\ district_codes = [r \in Requests |-> <<>>]
    /\ idx = [r \in Requests |-> 0]
    /\ success_count = [r \in Requests |-> 0]
    /\ statusCall = NoCall
    /\ zeroRuns = 0
    /\ dbFaulty = FALSE
    /\ districtStats = {}
    /\ probe = NoScheduler
    /\ answer = NoJobRun

\* requests are accepted between startup and shutdown; a request in flight
\* at shutdown runs on
NextSched ==
    \/ SchedTick
    \/ StartScheduler
    \/ StopScheduler
    \/ ScheduledDataRefresh
    \/ CleanupOldCache
    \/ \E r \in SchedRequests, commitOk \in StatusCommitOutcomes :
           \E codes \in Orders(DistinctCodes(districtData)) :
               /\ probe.running
               /\ RefreshAllDataStart(r, codes, commitOk)
               /\ UNCHANGED restVars
    \/ \E r \in SchedRequests, fetchOk \in BOOLEAN :
           \E saveOk \in CommitOutcomes, commitOk \in StatusCommitOutcomes :
               RefreshAllDataResume(r, fetchOk, saveOk, commitOk)
               /\ UNCHANGED restVars
    \/ \E r \in SchedRequests : Return(r) /\ UNCHANGED restVars

SchedSpec == InitSched /\ [][NextSched]_vars

\* the application starts, the clock advances, a due job runs, a finished
\* call returns
SchedFairSpec ==
    /\ SchedSpec
    /\ WF_vars(StartScheduler)
    /\ SF_vars(SchedTick)
    /\ WF_vars(ScheduledDataRefresh)
    /\ WF_vars(CleanupOldCache)
    /\ WF_vars(\E r \in SchedRequests : Return(r) /\ UNCHANGED restVars)

\* a run of the periodic job that invoked refresh_all_data
RefreshedByJob ==
    /\ answer["data_refresh"] # None
    /\ "refresh_all_data" \in answer["data_refresh"].calls

C29_NoFetchAfterStop ==
    [][\A r \in Requests :
          (probe.stopped /\ op[r] = "refresh_all_data")
              => fetches'[r] <= fetches[r]]_vars

----------------------------------------------------------------------------
(* get_district_data over tables an earlier process filled: the cached
   rows differ from what the source returns now *)

InitLadder ==
    /\ now = 0
    /\ districtData \in LegacyStores
    /\ cacheStatus = [t \in DataTypes |-> None]
    /\ pc = [r \in Requests |-> "idle"]
    /\ op = [r \in Requests |-> "none"]
    /\ district_code = [r \in Requests |-> ""]
    /\ current_year = [r \in Requests |-> 0]
    /\ cached_data = [r \in Requests |-> None]
    /\ result = [r \in Requests |-> None]
    /\ served = [r \in Requests |-> "none"]
    /\ fetches = [r \in Requests |-> 0]
    /\ district_codes = [r \in Requests |-> <<>>]
    /\ idx = [r \in Requests |-> 0]
    /\ success_count = [r \in Requests |-> 0]
    /\ statusCall = NoCall
    /\ zeroRuns = 0
    /\ dbFaulty = FALSE
    /\ districtStats = {}
    /\ probe = None
    /\ answer = None

NextLadder ==
    \/ Tick /\ UNCHANGED restVars
    \/ \E r \in Requests, code \in Districts, year \in YearArgs :
           GetDistrictDataStart(r, code, year) /\ UNCHANGED restVars
    \/ \E r \in Requests, fetchOk \in BOOLEAN, commitOk \in CommitOutcomes :
           GetDistrictDataResume(r, fetchOk, commitOk) /\ UNCHANGED restVars
    \/ \E r \in Requests : Return(r) /\ UNCHANGED restVars

LadderSpec == InitLadder /\ [][NextLadder]_vars

\* C30 (degrade-ladder order): when a get_district_data call found its
\* cached row missing or stale and the source fetch succeeds, the stored
\* row of the key afterwards carries the fetched values and the time of
\* the call, and the call returns the fetched values, not the stale row; a
\* call returns a stale cached row only after its fetch failed.
C30_LadderOrder ==
    [][\A r \in Requests :
         /\ GetDistrictDataResume(r, TRUE, TRUE)
               => LET code == district_code[r]
                      cy == current_year[r]
                      fetched == GetDistrictMgnregaData(code, cy, TRUE)
                      stored == GetCachedDistrictData(districtData', code, cy)
                  IN  /\ stored # None
                      /\ PayloadFields(stored) = PayloadFields(fetched)
                      /\ stored.last_updated = now
                      /\ result'[r] # None
                      /\ PayloadFields(result'[r]) = PayloadFields(fetched)
                      /\ cached_data[r] # None
                            => result'[r] # FormatDistrictData(cached_data[r])
         /\ (/\ pc[r] = "await_fetch"
             /\ pc'[r] = "done"
             /\ cached_data[r] # None
             /\ result'[r] = FormatDistrictData(cached_data[r]))
               => GetDistrictDataResume(r, FALSE, TRUE)]_vars

\* a read that found a stale row with other values, fetched, and returned
\* the fetched values which the table now holds
C30_Witness ==
    \E r \in Requests :
        /\ ReadDone(r)
        /\ served[r] = "updated"
        /\ cached_data[r] # None
        /\ IsCacheStale(cached_data[r].last_updated, now)
        /\ cached_data[r].total_person_days # result[r].total_person_days
        /\ GetCachedDistrictData(districtData, district_code[r],
                                 current_year[r]).total_person_days
               = result[r].total_person_days

----------------------------------------------------------------------------
(* Reads and bulk refreshes writing the same keys, over tables an earlier
   process filled *)

\* the legacy tables that hold more than one row
WriterStores == {rows \in LegacyStores : Cardinality(rows) > 1}

InitWriters ==
    /\ now = 0
    /\ districtData \in WriterStores
    /\ cacheStatus = [t \in DataTypes |-> None]
    /\ pc = [r \in Requests |-> "idle"]
    /\ op = [r \in Requests |-> "none"]
    /\ district_code = [r \in Requests |-> ""]
    /\ current_year = [r \in Requests |-> 0]
    /\ cached_data = [r \in Requests |-> None]
    /\ result = [r \in Requests |-> None]
    /\ served = [r \in Requests |-> "none"]
    /\ fetches = [r \in Requests |-> 0]
    /\ district_codes = [r \in Requests |-> <<>>]
    /\ idx = [r \in Requests |-> 0]
    /\ success_count = [r \in Requests |-> 0]
    /\ statusCall = NoCall
    /\ zeroRuns = 0
    /\ dbFaulty = FALSE
    /\ districtStats = {}
    /\ probe = None
    /\ answer = None

NextWriters ==
    \/ Tick /\ UNCHANGED restVars
    \/ \E r \in Requests, code \in Districts :
           GetDistrictDataStart(r, code, 0) /\ UNCHANGED restVars
    \/ \E r \in Requests, fetchOk \in BOOLEAN, commitOk \in CommitOutcomes :
           GetDistrictDataResume(r, fetchOk, commitOk) /\ UNCHANGED restVars
    \/ \E r \in Requests, commitOk \in StatusCommitOutcomes :
           \E codes \in Orders(DistinctCodes(districtData)) :
               RefreshAllDataStart(r, codes, commitOk) /\ UNCHANGED restVars
    \/ \E r \in Requests, fetchOk \in BOOLEAN :
           \E saveOk \in CommitOutcomes, commitOk \in StatusCommitOutcomes :
               RefreshAllDataResume(r, fetchOk, saveOk, commitOk)
               /\ UNCHANGED restVars
    \/ \E r \in Requests : Return(r) /\ UNCHANGED restVars

WritersSpec == InitWriters /\ [][NextWriters]_vars

\* the key the step of request r writes, if it writes
WrittenCode(r) ==
    IF pc[r] = "refresh_fetch" THEN district_codes[r][idx[r]]
    ELSE district_code[r]

\* C31 (last writer wins): whenever a read or a bulk refresh commits a
\* write for a key, also one that another call has written since this call
\* began, the stored row of the key afterwards holds every field of this
\* write's payload and this write's time, and no other row has changed.
C31_LastWriterWins ==
    [][\A r \in Requests :
          (/\ pc[r] \in {"await_fetch", "refresh_fetch"}
           /\ pc'[r] # pc[r] \/ idx'[r] # idx[r]
           /\ districtData' # districtData)
             => LET code == WrittenCode(r)
                    cy == current_year[r]
                    payload == GetDistrictMgnregaData(code, cy, TRUE)
                    stored == GetCachedDistrictData(districtData', code, cy)
                IN  /\ stored # None
                    /\ PayloadFields(stored) = PayloadFields(payload)
                    /\ stored.last_updated = now
                    /\ \A row \in districtData' :
                          row = stored \/ row \in districtData]_vars

\* a read and a bulk refresh overlapped on one key: the refresh wrote it
\* while the read was waiting, the read wrote it last
C31_Witness ==
    \E r1 \in Requests, r2 \in Requests :
        /\ ReadDone(r1)
        /\ served[r1] = "updated"
        /\ cached_data[r1] # None
        /\ cached_data[r1].last_updated = 0
        /\ op[r2] = "refresh_all_data"
        /\ pc[r2] = "refresh_fetch"
        /\ idx[r2] = 2
        /\ success_count[r2] = 1
        /\ district_codes[r2][1] = district_code[r1]
        /\ now > 0
        /\ GetCachedDistrictData(districtData, district_code[r1],
                                 current_year[r1]).last_updated = now

\* C32 (returned record is the stored row): whenever a get_district_data
\* call has returned a record, also while other requests run, the record
\* equals the row stored for its key at that moment; a stale fallback is
\* not older than the stored row.
C32_ReturnsStoredRow ==
    \A r \in Requests :
        (ReadDone(r) /\ result[r] # None)
            => LET stored == GetCachedDistrictData(districtData,
                                 district_code[r], current_year[r])
               IN  /\ stored # None
                   /\ result[r] = FormatDistrictData(stored)
                   /\ result[r].last_updated >= stored.last_updated

\* the district_stats rows of a district younger than the cache duration
FreshStatsRows(code) ==
    {row \in districtStats :
        /\ row.district_code = code
        /\ row.last_updated # Null
        /\ now - row.last_updated < CacheDurationHours}

\* C33 (stats are cache-derived): a get_district_stats call makes no
\* source call and leaves the district_data and cache_status tables as they
\* were; when a district_stats row of the district younger than 24h exists,
\* the call returns that row and leaves the district_stats table as it was.
C33_StatsCacheDerived ==
    [][\A r \in Requests, code \in Districts, commitOk \in BOOLEAN,
          calcOk \in BOOLEAN :
         GetDistrictStats(r, code, commitOk, calcOk)
            => /\ fetches' = fetches
               /\ districtData' = districtData
               /\ cacheStatus' = cacheStatus
               /\ FreshStatsRows(code) # {}
                     => /\ districtStats' = districtStats
                        /\ \E row \in FreshStatsRows(code) :
                              result'[r] = FormatDistrictStats(row)]_vars

\* stats served from a 12h-old row although the records they were computed
\* from have been replaced since
C33_Witness ==
    \E r \in Requests :
        /\ StatsDone(r)
        /\ served[r] = "cache"
        /\ fetches[r] = 0
        /\ result[r].last_updated < now
        /\ CalculateDistrictStats(districtData, district_code[r], now) # None
        /\ CalculateDistrictStats(districtData, district_code[r],
                                  now).performance_score
               # result[r].performance_score

----------------------------------------------------------------------------
(* The whole service: every endpoint operation and the scheduler's jobs
   over the same tables *)

\* the rows of the cache_status table as db.query(CacheStatus).all()
\* returns them
CacheStatusList(table) ==
    IF table["district_data"] = None THEN <<>>
    ELSE <<table["district_data"]>>

\* a report that marks the row it read as stale
GetCacheStatusCallMutMarks(r) ==
    /\ NoPendingReturn
    /\ pc[r] = "idle"
    /\ pc' = [pc EXCEPT ![r] = "done"]
    /\ op' = [op EXCEPT ![r] = "get_cache_status"]
    /\ result' = [result EXCEPT ![r] =
                      StatusData(CacheStatusList(cacheStatus), now)]
    /\ served' = [served EXCEPT ![r] = "status"]
    /\ cacheStatus' = [t \in DataTypes |->
                          IF cacheStatus[t] = None THEN None
                          ELSE [cacheStatus[t] EXCEPT !.is_stale = "True"]]
    /\ UNCHANGED <<now, districtData, district_code,
                   current_year, cached_data, fetches, district_codes, idx,
                   success_count, statusCall, zeroRuns, dbFaulty>>

\* get_cache_status over the cache_status table: it awaits nothing, so the
\* whole call is one step
GetCacheStatusCall(r) ==
    /\ NoPendingReturn
    /\ pc[r] = "idle"
    /\ pc' = [pc EXCEPT ![r] = "done"]
    /\ op' = [op EXCEPT ![r] = "get_cache_status"]
    /\ result' = [result EXCEPT ![r] =
                      StatusData(CacheStatusList(cacheStatus), now)]
    /\ served' = [served EXCEPT ![r] = "status"]
    /\ UNCHANGED <<now, districtData, cacheStatus, district_code,
                   current_year, cached_data, fetches, district_codes, idx,
                   success_count, statusCall, zeroRuns, dbFaulty>>

ServiceRequests == {1}

\* the comparison requests of the service model
ServiceCodeLists == {codes \in CodeLists : Len(codes) <= MinItems}

\* the scheduler of __init__, no comparison under way, the tables hold two
\* years of one district
InitService ==
    /\ now = 0
    /\ districtData = {LegacyRow(1, "AP001", CurrentYear),
                       LegacyRow(2, "AP001", CurrentYear - 1)}
    /\ cacheStatus = [t \in DataTypes |-> None]
    /\ pc = [r \in Requests |-> "idle"]
    /\ op = [r \in Requests |-> "none"]
    /\ district_code = [r \in Requests |-> ""]
    /\ current_year = [r \in Requests |-> 0]
    /\ cached_data = [r \in Requests |-> None]
    /\ result = [r \in Requests |-> None]
    /\ served = [r \in Requests |-> "none"]
    /\ fetches = [r \in Requests |-> 0]
    /\ district_codes = [r \in Requests |-> <<>>]
    /\ idx = [r \in Requests |-> 0]
    /\ success_count = [r \in Requests |-> 0]
    /\ statusCall = NoCall
    /\ zeroRuns = 0
    /\ dbFaulty = FALSE
    /\ districtStats = {}
    /\ probe = [running |-> FALSE, stopped |-> FALSE, jobs |-> {},
                next_refresh |-> Null, next_cleanup |-> Null,
                districts |-> <<>>, district_data |-> {}]
    /\ answer = NoJobRun

\* the clock of the running application passes the cache duration and the
\* periods of both jobs
ServiceTick ==
    /\ probe.running \/ probe.stopped
    /\ NoPendingReturn
    /\ now < MaxTime
    /\ now' = MaxTime
    /\ UNCHANGED <<districtData, cacheStatus, reqVars, statusCall, zeroRuns,
                   dbFaulty, restVars>>

\* requests are accepted between startup and shutdown
NextService ==
    \/ ServiceTick
    \/ StartScheduler
    \/ StopScheduler
    \/ ScheduledDataRefresh
    \/ CleanupOldCache
    \/ \E r \in ServiceRequests, code \in Districts :
           /\ probe.running
           /\ GetDistrictDataStart(r, code, 0)
           /\ UNCHANGED restVars
    \/ \E r \in ServiceRequests, fetchOk \in BOOLEAN,
          commitOk \in CommitOutcomes :
           GetDistrictDataResume(r, fetchOk, commitOk) /\ UNCHANGED restVars
    \/ \E r \in ServiceRequests, code \in Districts,
          commitOk \in CommitOutcomes, calcOk \in CalcOutcomes :
           probe.running /\ GetDistrictStats(r, code, commitOk, calcOk)
    \/ \E r \in ServiceRequests, codes \in ServiceCodeLists :
           probe.running /\ CompareDistrictsStart(r, codes)
    \/ \E r \in ServiceRequests, fetchOk \in BOOLEAN,
          commitOk \in CommitOutcomes :
           CompareDistrictsResume(r, fetchOk, commitOk)
    \/ \E r \in ServiceRequests :
           probe.running /\ GetCacheStatusCall(r) /\ UNCHANGED restVars
    \/ \E r \in ServiceRequests, commitOk \in StatusCommitOutcomes :
           \E codes \in Orders(DistinctCodes(districtData)) :
               /\ probe.running
               /\ RefreshAllDataStart(r, codes, commitOk)
               /\ UNCHANGED restVars
    \/ \E r \in ServiceRequests, fetchOk \in BOOLEAN :
           \E saveOk \in CommitOutcomes, commitOk \in StatusCommitOutcomes :
               RefreshAllDataResume(r, fetchOk, saveOk, commitOk)
               /\ UNCHANGED restVars
    \/ \E r \in ServiceRequests :
           /\ Return(r)
           /\ probe' = Cleared(probe)
           /\ UNCHANGED <<districtStats, answer>>

ServiceSpec == InitService /\ [][NextService]_vars

\* the operations that are not the bulk refresh
NonRefreshOps ==
    {"get_district_data", "get_district_stats", "compare_districts",
     "get_cache_status"}

\* request r takes a step of the operation it is in, or begins one
StepOf(r) == pc'[r] # pc[r] \/ idx'[r] # idx[r]

\* C34 (only the health tracker writes the health rows): every step of
\* get_district_data, get_district_stats, compare_districts and
\* get_cache_status, and every run of a scheduled job, leaves the
\* cache_status table as it was; the table changes only in the step in which
\* a refresh_all_data call ends, and then to what _update_cache_status
\* makes of the call's tally.
C34_OnlyTrackerWrites ==
    [][/\ \A r \in Requests :
             (StepOf(r) /\ op'[r] \in NonRefreshOps)
                 => cacheStatus' = cacheStatus
       /\ cacheStatus' # cacheStatus
             => \E r \in Requests :
                   /\ op[r] = "refresh_all_data" \/ pc[r] = "idle"
                   /\ RefreshDone(r)'
                   /\ cacheStatus' = UpdateCacheStatus(cacheStatus,
                                         "district_data", success_count'[r],
                                         now, TRUE)]_vars

\* a comparison that fetched has been answered while the cache_status row
\* written by an earlier refresh stands at one failure
C34_Witness ==
    \E r \in Requests :
        /\ CompareDone(r)
        /\ served[r] = "compared"
        /\ fetches[r] > 0
        /\ cacheStatus["district_data"] # None
        /\ cacheStatus["district_data"].failed_attempts = 1

\* the (district_code, year) keys of the district_data table
StoredKeys(rows) == {<<row.district_code, row.year>> : row \in rows}

\* C35 (rows are never deleted): no step of a read, a stats request, a
\* comparison, a status report, a bulk refresh or a scheduled job removes a
\* (district_code, year) key from the district_data table.
C35_KeysOnlyGrow ==
    [][StoredKeys(districtData) \subseteq StoredKeys(districtData')]_vars

\* the cleanup job has run after a new district was stored, and the row of
\* the earlier year is still there
C35_Witness ==
    /\ answer["cache_cleanup"] # None
    /\ <<"BR001", CurrentYear>> \in StoredKeys(districtData)
    /\ <<"AP001", CurrentYear - 1>> \in StoredKeys(districtData)
    /\ \E row \in districtData :
          /\ row.district_code = "BR001"
          /\ row.last_updated < answer["cache_cleanup"].at

\* C36 (stale stats fallback): when a get_district_stats call finds a
\* district_stats row older than 24h for the district and its recomputation
\* yields nothing, because the district has no district_data row or because
\* the computation fails, the call returns that row and not None.
C36_StaleStatsFallback ==
    [][\A r \in Requests, code \in Districts, commitOk \in BOOLEAN,
          calcOk \in BOOLEAN :
         (/\ GetDistrictStats(r, code, commitOk, calcOk)
          /\ \E row \in districtStats :
                /\ row.district_code = code
                /\ now - row.last_updated > CacheDurationHours
          /\ \/ ~calcOk
             \/ {row \in districtData : row.district_code = code} = {})
            => /\ result'[r] # None
               /\ \E row \in districtStats :
                     /\ row.district_code = code
                     /\ result'[r] = FormatDistrictStats(row)
               /\ districtStats' = districtStats]_vars

\* a stats call was answered with the 36h-old row after its computation
\* failed
C36_Witness ==
    \E r \in Requests :
        /\ StatsDone(r)
        /\ served[r] = "stale"
        /\ result[r] # None
        /\ now - result[r].last_updated > CacheDurationHours
        /\ CalculateDistrictStats(districtData, district_code[r], now) # None

StatusReportDone(r) == pc[r] = "done" /\ op[r] = "get_cache_status"

\* C37 (health rows are consistent): in every reachable state each
\* cache_status row has is_stale true exactly when api_status is 'down',
\* and 'down' only with failed_attempts >= 3; so no get_cache_status report
\* has overall_status 'degraded'.
C37_HealthRowConsistent ==
    /\ \A t \in DataTypes :
          cacheStatus[t] # None
              => /\ cacheStatus[t].is_stale = "True"
                     <=> cacheStatus[t].api_status = "down"
                 /\ cacheStatus[t].api_status = "down"
                     => /\ cacheStatus[t].failed_attempts # Null
                        /\ cacheStatus[t].failed_attempts >= 3
    /\ \A r \in Requests :
          StatusReportDone(r) => result[r].overall_status # "degraded"

\* a report over a row that three failed refreshes have driven down
C37_Witness ==
    \E r \in Requests :
        /\ StatusReportDone(r)
        /\ result[r].overall_status = "critical"
        /\ cacheStatus["district_data"] # None
        /\ cacheStatus["district_data"].api_status = "down"
        /\ cacheStatus["district_data"].is_stale = "True"
        /\ cacheStatus["district_data"].failed_attempts = 3

\* request r's refresh_all_data call ends in this step
RefreshEnds(r) == RefreshDone(r)' /\ ~RefreshDone(r)

\* C38 (what counts as a failure): the failure counter of the cache_status
\* row grows only in the step that ends a refresh_all_data run which
\* attempted the fetch of at least one district and stored none; a run that
\* found no district in the store leaves the cache_status table as it was,
\* so it neither counts as a failure nor moves api_status towards 'down'.
C38_FailureCounted ==
    [][/\ FailedAttemptsOf(cacheStatus') > FailedAttemptsOf(cacheStatus)
             => \E r \in Requests :
                   /\ RefreshEnds(r)
                   /\ Len(district_codes'[r]) >= 1
                   /\ fetches'[r] = Len(district_codes'[r])
                   /\ success_count'[r] = 0
       /\ \A r \in Requests :
             (RefreshEnds(r) /\ district_codes'[r] = <<>>)
                 => cacheStatus' = cacheStatus]_vars

\* a bulk refresh over the empty store has ended: the tracker was called
\* with a zero tally and no cache_status row was counted up
C38_Witness ==
    \E r \in Requests :
        /\ RefreshDone(r)
        /\ district_codes[r] = <<>>
        /\ districtData = {}
        /\ fetches[r] = 0
        /\ statusCall.made
        /\ statusCall.success_count = 0
        /\ FailedAttemptsOf(cacheStatus) = 0

----------------------------------------------------------------------------
(* Bulk refreshes over tables an earlier process filled, with upserts that
   may fail *)

InitRefresh ==
    /\ now = 0
    /\ districtData \in LegacyStores
    /\ cacheStatus = [t \in DataTypes |-> None]
    /\ pc = [r \in Requests |-> "idle"]
    /\ op = [r \in Requests |-> "none"]
    /\ district_code = [r \in Requests |-> ""]
    /\ current_year = [r \in Requests |-> 0]
    /\ cached_data = [r \in Requests |-> None]
    /\ result = [r \in Requests |-> None]
    /\ served = [r \in Requests |-> "none"]
    /\ fetches = [r \in Requests |-> 0]
    /\ district_codes = [r \in Requests |-> <<>>]
    /\ idx = [r \in Requests |-> 0]
    /\ success_count = [r \in Requests |-> 0]
    /\ statusCall = NoCall
    /\ zeroRuns = 0
    /\ dbFaulty = TRUE
    /\ districtStats = {}
    /\ probe = None
    /\ answer = None

NextRefresh ==
    \/ Tick /\ UNCHANGED restVars
    \/ \E r \in Requests, commitOk \in StatusCommitOutcomes :
           \E codes \in Orders(DistinctCodes(districtData)) :
               RefreshAllDataStart(r, codes, commitOk) /\ UNCHANGED restVars
    \/ \E r \in Requests, fetchOk \in BOOLEAN :
           \E saveOk \in CommitOutcomes, commitOk \in StatusCommitOutcomes :
               RefreshAllDataResume(r, fetchOk, saveOk, commitOk)
               /\ UNCHANGED restVars
    \/ \E r \in Requests : Return(r) /\ UNCHANGED restVars

RefreshSpec == InitRefresh /\ [][NextRefresh]_vars

\* C39 (the tally counts stored districts): in a refresh_all_data run the
\* list of codes holds each distinct district code of the store at
\* enumeration time once, success_count starts at 0 and grows by one exactly
\* for each district whose fetch and upsert both succeeded, and that count,
\* between 0 and the number of codes, is the tally handed to
\* _update_cache_status and the total_records it records.
C39_TallyCountsStored ==
    /\ [][\A r \in Requests :
            /\ \A codes \in Orders(DistinctCodes(districtData)) :
                  RefreshAllDataStart(r, codes, TRUE)
                      => /\ success_count'[r] = 0
                         /\ Len(district_codes'[r])
                                = Cardinality(DistinctCodes(districtData))
            /\ \A fetchOk \in BOOLEAN, saveOk \in BOOLEAN :
                  RefreshAllDataResume(r, fetchOk, saveOk, TRUE)
                      => success_count'[r] =
                             success_count[r]
                             + (IF fetchOk /\ saveOk THEN 1 ELSE 0)
            /\ RefreshEnds(r)
                  => /\ statusCall'.success_count = success_count'[r]
                     /\ cacheStatus' # cacheStatus
                           => cacheStatus'["district_data"].total_records
                                  = success_count'[r]]_vars
    /\ [](\A r \in Requests :
             op[r] = "refresh_all_data"
                 => /\ 0 <= success_count[r]
                    /\ success_count[r] <= Len(district_codes[r])
                    /\ \A i, j \in DOMAIN district_codes[r] :
                          district_codes[r][i] = district_codes[r][j]
                              => i = j)

\* a run over two districts ended with one stored: one fetch or upsert
\* failed
C39_Witness ==
    \E r \in Requests :
        /\ RefreshDone(r)
        /\ Len(district_codes[r]) = 2
        /\ fetches[r] = 2
        /\ success_count[r] = 1
        /\ statusCall.made
        /\ statusCall.success_count = 1
        /\ StatusRow # None
        /\ StatusRow.total_records = 1

\* C40 (what a bulk refresh writes): a step of refresh_all_data adds or
\* changes only rows keyed (district_code, current year) whose district
\* code was in the store before the step and in the list the run
\* enumerated; it brings no new district code into the store and leaves
\* every row of another year as it was, last_updated included.
C40_RefreshFrame ==
    [][\A r \in Requests :
          (StepOf(r) /\ op'[r] = "refresh_all_data")
             => /\ DistinctCodes(districtData') = DistinctCodes(districtData)
                /\ \A row \in districtData' \ districtData :
                      /\ row.year = CurrentYear
                      /\ row.district_code \in DistinctCodes(districtData)
                      /\ \E i \in DOMAIN district_codes'[r] :
                            district_codes'[r][i] = row.district_code
                /\ \A row \in districtData :
                      row.year # CurrentYear => row \in districtData']_vars

\* a bulk refresh has rewritten the current-year row of a district at
\* hour 36; the district's row of the year before still carries hour 0
C40_Witness ==
    \E r \in Requests :
        /\ RefreshDone(r)
        /\ success_count[r] >= 1
        /\ now = MaxTime
        /\ \E cur \in districtData, old \in districtData :
              /\ cur.district_code = old.district_code
              /\ cur.district_code = district_codes[r][1]
              /\ cur.year = CurrentYear
              /\ old.year = CurrentYear - 1
              /\ cur.last_updated = now
              /\ old.last_updated = 0
              /\ old.total_person_days # cur.total_person_days

====
